---- MODULE Spec2Model ----
(***************************************************************************)
(* Dependency audit tools of fazel/Sbom: the npm frontend audit            *)
(* (src/frontend/frontend.go and its earlier variant src/unnamed/part_001),*)
(* the plain repo-list audit (src/main.go) and the Erlang rebar.config     *)
(* audit (src/unnamed/part_000).                                           *)
(*                                                                         *)
(* Strings are TLA+ strings handled character by character (Len, SubSeq,   *)
(* \o), so prefixes, separators and substrings are computed, not assumed.  *)
(* The emoji of the status labels are written as ASCII marks, see the      *)
(* "status marks" section.                                                 *)
(***************************************************************************)
EXTENDS Integers, Sequences, FiniteSets, TLC

(***************************************************************************)
(* Go's strings package, as the audit code uses it.                        *)
(***************************************************************************)
CharAt(s, i) == SubSeq(s, i, i)

HasPrefix(s, prefix) ==
    Len(s) >= Len(prefix) /\ SubSeq(s, 1, Len(prefix)) = prefix

HasSuffix(s, suffix) ==
    Len(s) >= Len(suffix) /\ SubSeq(s, Len(s) - Len(suffix) + 1, Len(s)) = suffix

TrimPrefix(s, prefix) ==
    IF HasPrefix(s, prefix) THEN SubSeq(s, Len(prefix) + 1, Len(s)) ELSE s

TrimSuffix(s, suffix) ==
    IF HasSuffix(s, suffix) THEN SubSeq(s, 1, Len(s) - Len(suffix)) ELSE s

MatchAt(s, substr, i) ==
    i + Len(substr) - 1 <= Len(s) /\ SubSeq(s, i, i + Len(substr) - 1) = substr

Contains(s, substr) ==
    \E i \in 1..(Len(s) - Len(substr) + 1) : MatchAt(s, substr, i)

\* 1-based position of the first occurrence; 0 when there is none
\* (Go's strings.Index, shifted by one).
Least(positions) ==
    IF positions = {} THEN 0 ELSE CHOOSE i \in positions : \A j \in positions : i <= j

FirstIndex(s, substr) ==
    Least({i \in 1..(Len(s) - Len(substr) + 1) : MatchAt(s, substr, i)})

RECURSIVE Split(_, _)
SplitAt(s, sep, i) ==
    <<SubSeq(s, 1, i - 1)>> \o Split(SubSeq(s, i + Len(sep), Len(s)), sep)

Split(s, sep) == IF ~Contains(s, sep) THEN <<s>> ELSE SplitAt(s, sep, FirstIndex(s, sep))

\* The lower-case letter of each upper-case ASCII letter.
LowerOf ==
    [A |-> "a", B |-> "b", C |-> "c", D |-> "d", E |-> "e", F |-> "f", G |-> "g",
     H |-> "h", I |-> "i", J |-> "j", K |-> "k", L |-> "l", M |-> "m", N |-> "n",
     O |-> "o", P |-> "p", Q |-> "q", R |-> "r", S |-> "s", T |-> "t", U |-> "u",
     V |-> "v", W |-> "w", X |-> "x", Y |-> "y", Z |-> "z"]

ToLowerChar(c) == IF c \in DOMAIN LowerOf THEN LowerOf[c] ELSE c

\* strings.ToLower on ASCII text: every character lowered, the string
\* taken by halves.
RECURSIVE ToLower(_)
ToLowerHalves(s, mid) == ToLower(SubSeq(s, 1, mid)) \o ToLower(SubSeq(s, mid + 1, Len(s)))

ToLower(s) == IF Len(s) <= 1 THEN ToLowerChar(s) ELSE ToLowerHalves(s, Len(s) \div 2)

\* strings.TrimFunc with the predicate "rune is in cutset": strips the
\* leading and the trailing runes of the cutset.
RECURSIVE TrimLeftIn(_, _)
TrimLeftIn(s, cutset) ==
    IF s # "" /\ Contains(cutset, CharAt(s, 1))
    THEN TrimLeftIn(SubSeq(s, 2, Len(s)), cutset) ELSE s

RECURSIVE TrimRightIn(_, _)
TrimRightIn(s, cutset) ==
    IF s # "" /\ Contains(cutset, CharAt(s, Len(s)))
    THEN TrimRightIn(SubSeq(s, 1, Len(s) - 1), cutset) ELSE s

TrimFuncIn(s, cutset) == TrimRightIn(TrimLeftIn(s, cutset), cutset)

\* strings.Index: the 0-based position of the first occurrence, -1 when
\* there is none.
Index(s, substr) == FirstIndex(s, substr) - 1

\* The Go slice s[from:to].
Slice(s, from, to) == SubSeq(s, from + 1, to)

RECURSIVE ReplaceAll(_, _, _)
ReplaceAt(s, old, new, i) ==
    SubSeq(s, 1, i - 1) \o new \o ReplaceAll(SubSeq(s, i + Len(old), Len(s)), old, new)

ReplaceAll(s, old, new) ==
    IF ~Contains(s, old) THEN s ELSE ReplaceAt(s, old, new, FirstIndex(s, old))

\* strings.TrimSpace on ASCII text.
TrimSpace(s) == TrimFuncIn(s, " \n\r\t")

(***************************************************************************)
(* golang.org/x/mod/semver: IsValid and Compare on "v"-prefixed strings.   *)
(***************************************************************************)
Digits == "0123456789"
\* ASCII order of the characters a version identifier may hold.
AsciiOrder == "-0123456789ABCDEFGHIJKLMNOPQRSTUVWXYZabcdefghijklmnopqrstuvwxyz"

IsDigit(c) == c # "" /\ Contains(Digits, c)
IsIdentChar(c) == c # "" /\ Contains(AsciiOrder, c)
Ord(c) == FirstIndex(AsciiOrder, c)

\* Length of the leading run of digits of v.
RECURSIVE DigitRun(_)
DigitRun(v) ==
    IF v # "" /\ IsDigit(CharAt(v, 1)) THEN 1 + DigitRun(SubSeq(v, 2, Len(v))) ELSE 0

\* Byte-wise v < w for strings over AsciiOrder.
RECURSIVE StrLess(_, _)
StrLess(v, w) ==
    IF w = "" THEN FALSE
    ELSE IF v = "" THEN TRUE
    ELSE IF CharAt(v, 1) = CharAt(w, 1)
         THEN StrLess(SubSeq(v, 2, Len(v)), SubSeq(w, 2, Len(w)))
         ELSE Ord(CharAt(v, 1)) < Ord(CharAt(w, 1))

NoParse == [ok |-> FALSE, t |-> "", rest |-> ""]
Parsed(t, rest) == [ok |-> TRUE, t |-> t, rest |-> rest]

parseIntRun(v, i) ==
    IF CharAt(v, 1) = "0" /\ i # 1 THEN NoParse
    ELSE Parsed(SubSeq(v, 1, i), SubSeq(v, i + 1, Len(v)))

parseInt(v) ==
    IF v = "" \/ ~IsDigit(CharAt(v, 1)) THEN NoParse ELSE parseIntRun(v, DigitRun(v))

isNum(v) == DigitRun(v) = Len(v)
isBadNum(v) == isNum(v) /\ Len(v) > 1 /\ CharAt(v, 1) = "0"

\* The identifiers of a pre-release or build tag, scanned from position i
\* (after the leading "-" or "+") up to the end or to stop: TRUE when
\* every identifier is non-empty, made of identifier characters and, with
\* nums, not a number with a leading zero.
RECURSIVE IdentsOk(_, _, _, _, _)
IdentsOk(v, i, start, stop, nums) ==
    IF i > Len(v) \/ (stop # "" /\ CharAt(v, i) = stop) \/ CharAt(v, i) = "."
    THEN /\ start # i
         /\ ~(nums /\ isBadNum(SubSeq(v, start, i - 1)))
         /\ (i <= Len(v) /\ CharAt(v, i) = ".") => IdentsOk(v, i + 1, i + 1, stop, nums)
    ELSE IsIdentChar(CharAt(v, i)) /\ IdentsOk(v, i + 1, start, stop, nums)

\* Position of the first "+" of v, or one past its end.
buildStart(v) == IF Contains(v, "+") THEN FirstIndex(v, "+") ELSE Len(v) + 1

parsePrereleaseTo(v, i) == Parsed(SubSeq(v, 1, i - 1), SubSeq(v, i, Len(v)))

parsePrerelease(v) ==
    IF v = "" \/ CharAt(v, 1) # "-" \/ ~IdentsOk(v, 2, 2, "+", TRUE) THEN NoParse
    ELSE parsePrereleaseTo(v, buildStart(v))

parseBuild(v) ==
    IF v = "" \/ CharAt(v, 1) # "+" \/ ~IdentsOk(v, 2, 2, "", FALSE) THEN NoParse
    ELSE Parsed(v, "")

Unparsed == [ok |-> FALSE, major |-> "", minor |-> "", patch |-> "", prerelease |-> ""]
Version(major, minor, patch, prerelease) ==
    [ok |-> TRUE, major |-> major, minor |-> minor, patch |-> patch, prerelease |-> prerelease]

\* semver.parse: vMAJOR[.MINOR[.PATCH[-PRERELEASE][+BUILD]]], one stage
\* per component; the build tag is validated and dropped.
parseEnd(major, minor, patch, prerelease, bu) ==
    IF ~bu.ok \/ bu.rest # "" THEN Unparsed ELSE Version(major, minor, patch, prerelease)

parseAfterPrerelease(major, minor, patch, pre) ==
    IF ~pre.ok THEN Unparsed
    ELSE parseEnd(major, minor, patch, pre.t,
                  IF pre.rest # "" /\ CharAt(pre.rest, 1) = "+"
                  THEN parseBuild(pre.rest) ELSE Parsed("", pre.rest))

parseAfterPatch(major, minor, pa) ==
    IF ~pa.ok THEN Unparsed
    ELSE parseAfterPrerelease(major, minor, pa.t,
                              IF pa.rest # "" /\ CharAt(pa.rest, 1) = "-"
                              THEN parsePrerelease(pa.rest) ELSE Parsed("", pa.rest))

parseAfterMinor(major, mi) ==
    IF ~mi.ok THEN Unparsed
    ELSE IF mi.rest = "" THEN Version(major, mi.t, "0", "")
    ELSE IF CharAt(mi.rest, 1) # "." THEN Unparsed
    ELSE parseAfterPatch(major, mi.t, parseInt(SubSeq(mi.rest, 2, Len(mi.rest))))

parseAfterMajor(ma) ==
    IF ~ma.ok THEN Unparsed
    ELSE IF ma.rest = "" THEN Version(ma.t, "0", "0", "")
    ELSE IF CharAt(ma.rest, 1) # "." THEN Unparsed
    ELSE parseAfterMinor(ma.t, parseInt(SubSeq(ma.rest, 2, Len(ma.rest))))

parse(v) ==
    IF v = "" \/ CharAt(v, 1) # "v" THEN Unparsed
    ELSE parseAfterMajor(parseInt(SubSeq(v, 2, Len(v))))

IsValid(v) == parse(v).ok

compareInt(x, y) ==
    IF x = y THEN 0
    ELSE IF Len(x) < Len(y) THEN -1
    ELSE IF Len(x) > Len(y) THEN 1
    ELSE IF StrLess(x, y) THEN -1 ELSE 1

\* The identifier that opens body, and what is left after it.
identUpTo(body, i) == [ident |-> SubSeq(body, 1, i - 1), rest |-> SubSeq(body, i, Len(body))]

\* nextIdent of x[1:], x starting with the "-" or "." that opens it.
nextIdent(x) ==
    identUpTo(SubSeq(x, 2, Len(x)),
              IF Contains(SubSeq(x, 2, Len(x)), ".")
              THEN FirstIndex(SubSeq(x, 2, Len(x)), ".") ELSE Len(x))

\* Two differing pre-release identifiers: a number is below a word,
\* numbers compare by value, words byte-wise.
compareIdents(dx, dy, numX, numY) ==
    IF numX # numY THEN (IF numX THEN -1 ELSE 1)
    ELSE IF numX /\ Len(dx) < Len(dy) THEN -1
    ELSE IF numX /\ Len(dx) > Len(dy) THEN 1
    ELSE IF StrLess(dx, dy) THEN -1 ELSE 1

RECURSIVE comparePrereleaseFrom(_, _)
comparePrereleaseStep(dx, dy) ==
    IF dx.ident = dy.ident THEN comparePrereleaseFrom(dx.rest, dy.rest)
    ELSE compareIdents(dx.ident, dy.ident, isNum(dx.ident), isNum(dy.ident))

comparePrereleaseFrom(x, y) ==
    IF x = "" \/ y = "" THEN (IF x = "" THEN -1 ELSE 1)
    ELSE comparePrereleaseStep(nextIdent(x), nextIdent(y))

comparePrerelease(x, y) ==
    IF x = y THEN 0
    ELSE IF x = "" THEN 1
    ELSE IF y = "" THEN -1
    ELSE comparePrereleaseFrom(x, y)

\* The first of the component comparisons that is not 0, else 0.
firstNonZero(cs) ==
    IF \E i \in 1..Len(cs) : cs[i] # 0
    THEN cs[CHOOSE i \in 1..Len(cs) : cs[i] # 0 /\ \A j \in 1..(i - 1) : cs[j] = 0]
    ELSE 0

compareParsed(pv, pw) ==
    IF ~pv.ok /\ ~pw.ok THEN 0
    ELSE IF ~pv.ok THEN -1
    ELSE IF ~pw.ok THEN 1
    ELSE firstNonZero(<<compareInt(pv.major, pw.major), compareInt(pv.minor, pw.minor),
                        compareInt(pv.patch, pw.patch),
                        comparePrerelease(pv.prerelease, pw.prerelease)>>)

\* semver.Compare: an invalid version is less than any valid one, and two
\* invalid versions are equal.
Compare(v, w) == compareParsed(parse(v), parse(w))

(***************************************************************************)
(* Status marks: the emoji that open the status labels and the notes, in   *)
(* ASCII (TLA+ strings hold ASCII only).  One mark per emoji.              *)
(***************************************************************************)
CrossMark == "{x}"      \* U+274C, opens every error status and note
CheckMark == "{v}"      \* U+2705, "Up to date"
Recycle   == "{~}"      \* U+1F504, "Update Recommended"
Siren     == "{!}"      \* U+1F6A8, "URGENT Update Required"
NoEntry   == "{-}"      \* U+26D4 U+FE0F, "DEPRECATED"
UpArrow   == "{^}"      \* U+2B06 U+FE0F, "Update Available"

StatusUpToDate == CheckMark \o " Up to date"
StatusUrgent == Siren \o " URGENT Update Required (Security Patch!)"
StatusRecommended == Recycle \o " Update Recommended"
StatusChangelogUnavailable == Recycle \o " Update Recommended (Changelog unavailable)"
StatusRepoLinkMissing == Recycle \o " Update Recommended (Repo link missing)"
StatusArchived == NoEntry \o " DEPRECATED (Archived)"
StatusDeprecatedUpdateNeeded == NoEntry \o " DEPRECATED (Update Needed)"
StatusDeprecatedUpToDate == NoEntry \o " DEPRECATED (Up to date)"

(***************************************************************************)
(* Helpers shared by the pipelines.  A function of the code is written as  *)
(* a chain of stages, each taking what the lines before it computed.       *)
(***************************************************************************)
\* if !strings.HasPrefix(v, "v") { v = "v" + v }
withV(v) == IF HasPrefix(v, "v") THEN v ELSE "v" \o v

hasSecurityKeyword(body) ==
    \/ Contains(body, "security")
    \/ Contains(body, "vulnerability")
    \/ Contains(body, "cve")
    \/ Contains(body, "patch")

\* The keyword test without the lowering of the text.
securityKeywordsAsWritten(release) == hasSecurityKeyword(release.Body \o " " \o release.Name)

\* The security keyword test on a release's body and title.
securityKeywords(release) == hasSecurityKeyword(ToLower(release.Body \o " " \o release.Name))

markSecurity(info, release) ==
    IF securityKeywords(release) THEN [info EXCEPT !.SecurityPatch = TRUE] ELSE info

addNote(info, note) == [info EXCEPT !.ReleaseNotesList = Append(@, note)]

HttpForbidden == 403

\* resp != nil && resp.StatusCode == 403 &&
\*   strings.Contains(resp.Header.Get("X-RateLimit-Remaining"), "0")
isRateLimited(resp) ==
    resp.hasResp /\ resp.StatusCode = HttpForbidden /\ Contains(resp.Remaining, "0")

DigitVal(c) == FirstIndex(Digits, c) - 1

RECURSIVE DigitsValue(_, _)
DigitsValue(s, acc) ==
    IF s = "" THEN acc ELSE DigitsValue(SubSeq(s, 2, Len(s)), acc * 10 + DigitVal(CharAt(s, 1)))

\* strconv.ParseInt(s, 10, 64) on the header values the model sends: a
\* run of digits parses, anything else is a syntax error and yields 0.
ParseInt(s) ==
    IF s # "" /\ isNum(s)
    THEN [n |-> DigitsValue(s, 0), err |-> ""]
    ELSE [n |-> 0, err |-> "strconv.ParseInt: parsing \"" \o s \o "\": invalid syntax"]

\* time.Unix(t, 0).Format(time.RFC1123), for the instants the model sends.
FormatRFC1123(t) ==
    CASE t = 0 -> "Thu, 01 Jan 1970 00:00:00 UTC"
      [] t = 1704067200 -> "Mon, 01 Jan 2024 00:00:00 UTC"

\* What an evaluation hands back to the model: the report, the upstream
\* requests it issued, in order, and the operand pairs it passed to
\* semver.Compare, in order.
Returned(info, requests, compared) ==
    [info |-> info, requests |-> requests, compared |-> compared]

Checked(info, compared) == [info |-> info, compared |-> compared]

(***************************************************************************)
(* src/frontend/frontend.go                                                *)
(***************************************************************************)
NoRepo == [owner |-> "", repo |-> ""]

\* The prefixes, the fragment and the ".git" suffix removed.
cleanURL(url) ==
    TrimSuffix(
        Split(TrimPrefix(TrimPrefix(TrimPrefix(TrimPrefix(TrimPrefix(url,
              "git://"), "git+https://"), "https://"), "http://"), "git@"), "#")[1],
        ".git")

\* if parts := strings.Split(url, ":"); len(parts) > 1 { url = parts[1] }
afterColon(url, parts) == IF Len(parts) > 1 THEN parts[2] ELSE url

ownerAndRepo(parts) ==
    IF Len(parts) >= 2
       /\ (Contains(parts[1], "github.com") \/ Contains(parts[1], "gitlab.com"))
    THEN (IF Len(parts) >= 3 THEN [owner |-> parts[2], repo |-> parts[3]] ELSE NoRepo)
    ELSE IF Len(parts) >= 2 THEN [owner |-> parts[1], repo |-> parts[2]]
    ELSE NoRepo

pathParts(url) == SelectSeq(Split(afterColon(url, Split(url, ":")), "/"), LAMBDA p : p # "")

parseGitHubRepoURL(url) == ownerAndRepo(pathParts(cleanURL(url)))

\* cleanVer of checkNpmUpdate: the range characters trimmed, "v" put in front.
cleanVersion(currentVer) == withV(TrimFuncIn(currentVer, "^~=>"))

\* UpdateInfo{Repo: pkgName, CurrentVersion: cleanVer, LatestVersion: "N/A"}
newUpdateInfo(name, cleanVer) ==
    [Repo |-> name, CurrentVersion |-> cleanVer, LatestVersion |-> "N/A",
     UpdateNeeded |-> FALSE, SecurityPatch |-> FALSE, IsArchived |-> FALSE,
     ReleaseNotesList |-> <<>>, Status |-> ""]

lastPart(tagName, parts) == IF Len(parts) > 1 THEN parts[Len(parts)] ELSE tagName

\* The tag of a release as the frontend compares it: what follows the last
\* "@" (scoped tags such as pkg@1.2.3), with "v" in front.
cleanTag(tagName) == withV(lastPart(tagName, Split(tagName, "@")))

\* A variant of the note that frames the heading with "===".
latestChangelogNoteOtherFrame(release, owner, repo) ==
    "\n=== Latest Changelog for " \o release.Name \o " (Tag: " \o release.TagName
    \o ") (Owner: " \o owner \o ") (Repo: " \o repo \o ") ===\n" \o release.Body \o "\n"

latestChangelogNote(release, owner, repo) ==
    "\n--- Latest Changelog for " \o release.Name \o " (Tag: " \o release.TagName
    \o ") (Owner: " \o owner \o ") (Repo: " \o repo \o ") ---\n" \o release.Body \o "\n"

rateLimitNote(resetTime, owner, repo) ==
    CrossMark \o " GitHub Rate Limit Exceeded. Try again after " \o resetTime
    \o ". (Repo: " \o owner \o "/" \o repo \o ")"

\* "Store Changelog for the very latest version only"
noteFirst(info, found, release, owner, repo) ==
    IF ~found THEN addNote(info, latestChangelogNote(release, owner, repo)) ELSE info

\* The release loop of checkNpmUpdate from index i on.  st holds info,
\* foundLatestReleaseChangelog and the comparator operands so far; the loop
\* breaks at the first release that is not newer than the current version.
RECURSIVE scanReleases(_, _, _, _, _)
scanRelease(releases, i, st, owner, repo, tag) ==
    IF Compare(tag, st.info.CurrentVersion) <= 0
    THEN [st EXCEPT !.compared = Append(@, <<tag, st.info.CurrentVersion>>)]
    ELSE scanReleases(releases, i + 1,
            [info |-> noteFirst(markSecurity(st.info, releases[i]), st.found,
                                releases[i], owner, repo),
             found |-> TRUE,
             compared |-> Append(st.compared, <<tag, st.info.CurrentVersion>>)],
            owner, repo)

scanReleases(releases, i, st, owner, repo) ==
    IF i > Len(releases) THEN st
    ELSE scanRelease(releases, i, st, owner, repo, cleanTag(releases[i].TagName))

\* A variant of the final status assignment that ranks the security flag
\* above archival: C2 distinguishes it from finalStatus.
finalStatusSecurityFirst(info) ==
    IF info.SecurityPatch THEN StatusUrgent
    ELSE IF info.IsArchived
    THEN (IF info.UpdateNeeded THEN StatusDeprecatedUpdateNeeded ELSE StatusDeprecatedUpToDate)
    ELSE IF ~info.UpdateNeeded THEN StatusUpToDate
    ELSE IF \/ Len(info.ReleaseNotesList) = 0
            \/ HasPrefix(info.ReleaseNotesList[1], "Warning:")
            \/ HasPrefix(info.ReleaseNotesList[1], CrossMark)
         THEN StatusChangelogUnavailable
    ELSE StatusRecommended

\* A variant of the final status assignment without its last branch: the
\* status of an update with a changelog stays as it was, unset.
finalStatusWithoutDefault(info) ==
    IF info.IsArchived
    THEN (IF info.UpdateNeeded THEN StatusDeprecatedUpdateNeeded ELSE StatusDeprecatedUpToDate)
    ELSE IF info.SecurityPatch THEN StatusUrgent
    ELSE IF ~info.UpdateNeeded THEN StatusUpToDate
    ELSE IF \/ Len(info.ReleaseNotesList) = 0
            \/ HasPrefix(info.ReleaseNotesList[1], "Warning:")
            \/ HasPrefix(info.ReleaseNotesList[1], CrossMark)
         THEN StatusChangelogUnavailable
    ELSE info.Status

\* "3. Final Status Assignment" of checkNpmUpdate.
finalStatus(info) ==
    IF info.IsArchived
    THEN (IF info.UpdateNeeded THEN StatusDeprecatedUpdateNeeded ELSE StatusDeprecatedUpToDate)
    ELSE IF info.SecurityPatch THEN StatusUrgent
    ELSE IF ~info.UpdateNeeded THEN StatusUpToDate
    ELSE IF \/ Len(info.ReleaseNotesList) = 0
            \/ HasPrefix(info.ReleaseNotesList[1], "Warning:")
            \/ HasPrefix(info.ReleaseNotesList[1], CrossMark)
         THEN StatusChangelogUnavailable
    ELSE StatusRecommended

\* After the release loop: "if !foundLatestReleaseChangelog".
afterScan(st, owner, repo) ==
    IF st.found THEN Checked(st.info, st.compared)
    ELSE Checked(addNote(st.info,
                    "Warning: Could not fetch specific release details for version "
                    \o st.info.LatestVersion \o ", or only tags exist. (Repo: "
                    \o owner \o "/" \o repo \o ")"),
                 st.compared)

\* "2. VERSION & SECURITY CHECK": what ListReleases' answer adds to info.
releaseCheck(info, compared, owner, repo, listed) ==
    IF isRateLimited(listed)
    THEN Checked(addNote(info,
                    rateLimitNote(FormatRFC1123(ParseInt(listed.Reset).n), owner, repo)),
                 compared)
    ELSE IF listed.err # ""
    THEN Checked(addNote(info, "Warning: Could not list releases from GitHub (" \o owner
                               \o "/" \o repo \o "). Error: " \o listed.err),
                 compared)
    ELSE afterScan(scanReleases(listed.releases, 1,
                                [info |-> info, found |-> FALSE, compared |-> compared],
                                owner, repo),
                   owner, repo)

withFinalStatus(checked, requests) ==
    Returned([checked.info EXCEPT !.Status = finalStatus(checked.info)],
             requests, checked.compared)

\* The operands of the comparison of the current with the latest version.
versionsCompared(info) == <<<<info.CurrentVersion, info.LatestVersion>>>>

\* A variant of the tail of checkNpmUpdate without the guards on
\* info.UpdateNeeded: it lists the releases of every dependency.  C5
\* distinguishes it from afterArchiveCheck.
afterArchiveCheckUnguarded(info, src, listed) ==
    withFinalStatus(
        releaseCheck(info, versionsCompared(info), src.owner, src.repo, listed),
        <<"fetchNpmInfo", "Repositories.Get", "Repositories.ListReleases">>)

\* From "if info.IsArchived && !info.UpdateNeeded" to the end.
afterArchiveCheck(info, src, listed) ==
    IF info.IsArchived /\ ~info.UpdateNeeded
    THEN Returned(info, <<"fetchNpmInfo", "Repositories.Get">>, versionsCompared(info))
    ELSE IF info.UpdateNeeded
    THEN withFinalStatus(
            releaseCheck(info, versionsCompared(info), src.owner, src.repo, listed),
            <<"fetchNpmInfo", "Repositories.Get", "Repositories.ListReleases">>)
    ELSE withFinalStatus(Checked(info, versionsCompared(info)),
                         <<"fetchNpmInfo", "Repositories.Get">>)

\* "1. CHECK ARCHIVED (DEPRECATED) STATUS"
archiveChecked(info, details) ==
    IF details.err = "" /\ details.Archived
    THEN [info EXCEPT !.IsArchived = TRUE, !.Status = StatusArchived]
    ELSE info

\* A variant that goes on to GitHub with an empty owner or repo: C13
\* distinguishes it from afterVersionCheck.
afterVersionCheckUnguarded(info, src, details, listed) ==
    afterArchiveCheck(archiveChecked(info, details), src, listed)

\* From parseGitHubRepoURL's result on.
afterVersionCheck(info, src, details, listed) ==
    IF src.owner = "" \/ src.repo = ""
    THEN Returned([info EXCEPT !.Status = StatusRepoLinkMissing],
                  <<"fetchNpmInfo">>, versionsCompared(info))
    ELSE afterArchiveCheck(archiveChecked(info, details), src, listed)

\* info.LatestVersion and info.UpdateNeeded of frontend.go.
versionChecked(info, latestVer) ==
    [info EXCEPT !.LatestVersion = latestVer,
                 !.UpdateNeeded = ~(Compare(info.CurrentVersion, latestVer) >= 0)]

\* A variant that also keeps the error as a note, as the GitHub errors are.
npmFetchErrorNoted(info, err) ==
    Returned([info EXCEPT !.Status = CrossMark \o " NPM Fetch Error: " \o err,
                          !.ReleaseNotesList = Append(@, "Warning: " \o err)],
             <<"fetchNpmInfo">>, <<>>)

npmFetchError(info, err) ==
    Returned([info EXCEPT !.Status = CrossMark \o " NPM Fetch Error: " \o err],
             <<"fetchNpmInfo">>, <<>>)

\* checkNpmUpdate(client, pkgName, currentVer) of frontend.go, given the
\* answers of the registry (npm), of Repositories.Get (details) and of
\* Repositories.ListReleases (listed); an answer is read only where the
\* code issues the request.
checkNpmUpdate(pkgName, currentVer, npm, details, listed) ==
    IF npm.err # ""
    THEN npmFetchError(newUpdateInfo(pkgName, cleanVersion(currentVer)), npm.err)
    ELSE afterVersionCheck(
            versionChecked(newUpdateInfo(pkgName, cleanVersion(currentVer)), withV(npm.Version)),
            parseGitHubRepoURL(npm.URL), details, listed)

\* The filter of main: local paths and git URLs are not audited.
packageWanted(ver) == ~HasPrefix(ver, "file:") /\ ~Contains(ver, "git")

\* getOwnerRepoFromError(notes): owner/repo out of "... GitHub (owner/repo)".
ownerRepoOf(parts) ==
    IF Len(parts) >= 2 THEN [owner |-> parts[1], repo |-> Split(parts[2], ".git")[1]]
    ELSE NoRepo

ownerRepoBetween(notes, start, end) ==
    IF end > start THEN ownerRepoOf(Split(Slice(notes, start, end), "/")) ELSE NoRepo

getOwnerRepoFromError(notes) ==
    IF Contains(notes, "GitHub (")
    THEN ownerRepoBetween(notes, Index(notes, "GitHub (") + 8, Index(notes, ")"))
    ELSE NoRepo

\* What stands between label and the next ")" of notes, "" without them.
upToParen(rest) ==
    IF Contains(rest, ")") THEN SubSeq(rest, 1, FirstIndex(rest, ")") - 1) ELSE ""

fieldAfter(notes, label) ==
    IF Contains(notes, label)
    THEN upToParen(SubSeq(notes, FirstIndex(notes, label) + Len(label), Len(notes)))
    ELSE ""

getOwnerRepoFromChangelog(notes) ==
    [owner |-> fieldAfter(notes, "(Owner: "), repo |-> fieldAfter(notes, "(Repo: ")]

RECURSIVE collapseSpaces(_)
collapseSpaces(body) ==
    IF Contains(body, "  ") THEN collapseSpaces(ReplaceAll(body, "  ", " ")) ELSE body

\* The grave accent of markdown code spans, which a string of this module
\* cannot hold: the apostrophe stands for it.
Backtick == "'"

\* The markdown characters removed from a changelog body.
withoutMarkdown(body) ==
    ReplaceAll(ReplaceAll(ReplaceAll(ReplaceAll(ReplaceAll(ReplaceAll(ReplaceAll(ReplaceAll(
        body, "*", ""), "**", ""), "#", ""), "[", ""), "]", ""), "(", ""), ")", ""), Backtick, "")

\* extractBodyFromChangelog(notes), for notes with at least two "---";
\* indexPanics tells the others.
extractBodyFromChangelog(notes) ==
    ReplaceAll(
        collapseSpaces(
            ReplaceAll(ReplaceAll(withoutMarkdown(TrimSpace(Split(notes, "---")[3])),
                                  "\n", " "), "\r", " ")),
        "|", "\\|")

\* The first 80 bytes of the body and the ellipsis, or the whole body.
excerpt(changelogBody) ==
    IF Len(changelogBody) > 80
    THEN TrimSpace(Slice(changelogBody, 0, 80)) \o "..."
    ELSE TrimSpace(changelogBody)

\* The summary of a warning or error note that names its repository.
noteSummary(notes) ==
    TrimPrefix(TrimPrefix(Split(notes, "(Repo:")[1], "Warning: "), CrossMark \o " ")

isErrorNote(notes) == HasPrefix(notes, CrossMark) \/ HasPrefix(notes, "Warning:")

gitHubTagBetween(notes, tagStart, tagEnd) ==
    IF tagEnd > tagStart THEN TrimSpace(Slice(notes, tagStart, tagEnd)) ELSE ""

releaseLink(src, gitHubTag) ==
    IF src.owner = "" THEN ""
    ELSE IF gitHubTag # ""
    THEN "https://github.com/" \o src.owner \o "/" \o src.repo \o "/releases/tag/" \o gitHubTag
    ELSE "https://github.com/" \o src.owner \o "/" \o src.repo

tagsLink(src) ==
    IF src.owner = "" THEN ""
    ELSE "https://github.com/" \o src.owner \o "/" \o src.repo \o "/tags"

\* "2. Extract Link and Changelog Summary" of writeOutput: repoLinkURL and
\* changelogSummary of a report; accessError is the summary of an error
\* note that names no repository.
errorCell(notes, src, accessError) ==
    [link |-> tagsLink(src),
     summary |-> IF src.owner # "" THEN noteSummary(notes) ELSE accessError]

changelogCell(notes) ==
    [link |-> releaseLink(getOwnerRepoFromChangelog(notes),
                          gitHubTagBetween(notes, Index(notes, "(Tag:") + 6, Index(notes, ")"))),
     summary |-> excerpt(extractBodyFromChangelog(notes))]

notesCell(notes, accessError) ==
    IF isErrorNote(notes) THEN errorCell(notes, getOwnerRepoFromError(notes), accessError)
    ELSE changelogCell(notes)

summaryCell(info, accessError) ==
    IF Len(info.ReleaseNotesList) > 0 THEN notesCell(info.ReleaseNotesList[1], accessError)
    ELSE [link |-> "", summary |-> "N/A"]

\* "3. Create Markdown link for Latest Version" and "4. Write table row":
\* the cells of the row of info.
tableRow(index, info, statusDisplay, cell) ==
    [index |-> index, Repo |-> info.Repo, statusDisplay |-> statusDisplay,
     CurrentVersion |-> info.CurrentVersion,
     latestVersionDisplay |->
        IF cell.link # ""
        THEN "[" \o Backtick \o info.LatestVersion \o Backtick \o "](" \o cell.link \o ")"
        ELSE info.LatestVersion,
     changelogSummary |-> cell.summary]

\* The first note of info goes to extractBodyFromChangelog with fewer than
\* three parts between "---": the index [2] is out of range and the
\* program panics.
indexPanics(info) ==
    /\ Len(info.ReleaseNotesList) > 0
    /\ ~isErrorNote(info.ReleaseNotesList[1])
    /\ Len(Split(info.ReleaseNotesList[1], "---")) < 3

\* What is left of the output when writeOutput panics: no row, the panic.
PanicOutput == <<[panic |-> "runtime error: index out of range [2]"]>>

\* writeOutput(pkgJSON, infos, filename) of frontend.go: the rows of the
\* table, one per report.
writeOutput(infos) ==
    IF \E i \in 1..Len(infos) : indexPanics(infos[i]) THEN PanicOutput
    ELSE
    [i \in 1..Len(infos) |->
        tableRow(i, infos[i], infos[i].Status,
                 summaryCell(infos[i], CrossMark \o " Error: GitHub access"))]

(***************************************************************************)
(* src/unnamed/part_001: the earlier frontend audit.  Its UpdateInfo has   *)
(* no IsArchived, it asks GitHub for the latest release only, and falls    *)
(* back to the tag list on a 404.  parseGitHubRepoURL, the notes and the   *)
(* normalisation of the versions are those of frontend.go.                 *)
(***************************************************************************)
\* UpdateInfo{Repo: ..., CurrentVersion: ..., LatestVersion: "N/A"} of
\* part_001 and of main.go.
newUpdateInfoPlain(name, currentVer) ==
    [Repo |-> name, CurrentVersion |-> currentVer, LatestVersion |-> "N/A",
     UpdateNeeded |-> FALSE, SecurityPatch |-> FALSE,
     ReleaseNotesList |-> <<>>, Status |-> ""]

tagMatches(tagName, latestVersion) ==
    \/ HasSuffix(tagName, SubSeq(latestVersion, 2, Len(latestVersion)))
    \/ tagName = latestVersion

\* The first tag whose name ends with the latest version, or is it: its
\* position in tags, 0 when there is none.
foundTag(tags, latestVersion) ==
    IF \E i \in 1..Len(tags) : tagMatches(tags[i], latestVersion)
    THEN CHOOSE i \in 1..Len(tags) :
            /\ tagMatches(tags[i], latestVersion)
            /\ \A j \in 1..(i - 1) : ~tagMatches(tags[j], latestVersion)
    ELSE 0

\* The final status of part_001's checkNpmUpdate.
finalStatusLegacy(info) ==
    IF info.SecurityPatch THEN StatusUrgent
    ELSE IF \/ Len(info.ReleaseNotesList) = 0
            \/ HasPrefix(info.ReleaseNotesList[1], "Warning:")
            \/ HasPrefix(info.ReleaseNotesList[1], CrossMark)
         THEN StatusChangelogUnavailable
    ELSE StatusRecommended

CheckedWith(info, compared, requests) ==
    [info |-> info, compared |-> compared, requests |-> requests]

\* The rate-limit branch of part_001, t the parsed X-RateLimit-Reset.
rateLimitNoteLegacy(t, owner, repo) ==
    IF t.err = ""
    THEN rateLimitNote(FormatRFC1123(t.n), owner, repo)
    ELSE CrossMark \o " GitHub Rate Limit Exceeded. (Error parsing time: "
         \o t.err \o ") (Repo: " \o owner \o "/" \o repo \o ")"

\* The branch "release != nil && tagErr == nil" of part_001.
latestReleaseNoted(info, release, githubTag, owner, repo) ==
    IF Compare(info.CurrentVersion, githubTag) < 0
    THEN addNote(markSecurity(info, release), latestChangelogNote(release, owner, repo))
    ELSE info

tagNoted(info, tags, i, owner, repo) ==
    IF i > 0
    THEN addNote(info, "Warning: Found Tag '" \o tags[i] \o "'. Changelog unavailable (Repo: "
                       \o owner \o "/" \o repo \o ")")
    ELSE info

noTagNoted(info, owner, repo, err) ==
    IF Len(info.ReleaseNotesList) = 0
    THEN addNote(info, "Warning: Could not fetch release or tag details from GitHub ("
                       \o owner \o "/" \o repo \o "). Error: " \o err)
    ELSE info

\* The body of "if owner != "" && repo != """ of part_001's checkNpmUpdate:
\* what the answers of GetLatestRelease (latest) and of ListTags (tagged)
\* add to info.
latestReleaseCheck(info, compared, owner, repo, latest, tagged) ==
    IF isRateLimited(latest)
    THEN CheckedWith(addNote(info, rateLimitNoteLegacy(ParseInt(latest.Reset), owner, repo)),
                     compared, <<"Repositories.GetLatestRelease">>)
    ELSE IF Len(latest.releases) > 0 /\ latest.err = ""
    THEN CheckedWith(latestReleaseNoted(info, latest.releases[1],
                                        cleanTag(latest.releases[1].TagName), owner, repo),
                     Append(compared,
                            <<info.CurrentVersion, cleanTag(latest.releases[1].TagName)>>),
                     <<"Repositories.GetLatestRelease">>)
    ELSE IF latest.err # "" /\ Contains(latest.err, "404 Not Found")
    THEN CheckedWith(
            noTagNoted(tagNoted(info, tagged.tags,
                                IF tagged.err = "" /\ Len(tagged.tags) > 0
                                THEN foundTag(tagged.tags, info.LatestVersion) ELSE 0,
                                owner, repo),
                       owner, repo, latest.err),
            compared, <<"Repositories.GetLatestRelease", "Repositories.ListTags">>)
    ELSE IF latest.err # ""
    THEN CheckedWith(addNote(info, "Warning: Could not fetch latest release details from GitHub ("
                                   \o owner \o "/" \o repo \o "). Error: " \o latest.err),
                     compared, <<"Repositories.GetLatestRelease">>)
    ELSE CheckedWith(info, compared, <<"Repositories.GetLatestRelease">>)

withFinalStatusLegacy(checked) ==
    Returned([checked.info EXCEPT !.Status = finalStatusLegacy(checked.info)],
             <<"fetchNpmInfo">> \o checked.requests, checked.compared)

\* From "info.UpdateNeeded = true" to the end.
afterUpToDateCheck(info, src, url, latest, tagged) ==
    IF src.owner # "" /\ src.repo # ""
    THEN withFinalStatusLegacy(
            latestReleaseCheck(info, versionsCompared(info), src.owner, src.repo, latest, tagged))
    ELSE withFinalStatusLegacy(
            CheckedWith(addNote(info, "Warning: Could not extract GitHub repo from NPM URL: " \o url),
                        versionsCompared(info), <<>>))

\* From the comparison of the current with the latest version on.
afterNpmFetch(info, url, latest, tagged) ==
    IF Compare(info.CurrentVersion, info.LatestVersion) >= 0
    THEN Returned([info EXCEPT !.Status = StatusUpToDate], <<"fetchNpmInfo">>,
                  versionsCompared(info))
    ELSE afterUpToDateCheck([info EXCEPT !.UpdateNeeded = TRUE], parseGitHubRepoURL(url),
                            url, latest, tagged)

\* checkNpmUpdate(client, pkgName, currentVer) of part_001.
checkNpmUpdateLegacy(pkgName, currentVer, npm, latest, tagged) ==
    IF npm.err # ""
    THEN npmFetchError(newUpdateInfoPlain(pkgName, cleanVersion(currentVer)), npm.err)
    ELSE afterNpmFetch([newUpdateInfoPlain(pkgName, cleanVersion(currentVer))
                           EXCEPT !.LatestVersion = withV(npm.Version)],
                       npm.URL, latest, tagged)

\* "1." of part_001's writeOutput: the status shown is recomputed from the
\* flags of the report.  The strings of the source are Persian; they are
\* written here by their meaning.
statusDisplayLegacy(info) ==
    IF info.SecurityPatch THEN "**" \o Siren \o " Security patch!**"
    ELSE IF info.UpdateNeeded /\ Contains(info.Status, "Changelog unavailable")
    THEN Recycle \o " Needs update (unknown)"
    ELSE IF info.UpdateNeeded THEN Recycle \o " Needs update"
    ELSE CheckMark \o " Is up to date"

\* writeOutput(pkgJSON, infos, filename) of part_001.
writeOutputLegacy(infos) ==
    IF \E i \in 1..Len(infos) : indexPanics(infos[i]) THEN PanicOutput
    ELSE
    [i \in 1..Len(infos) |->
        tableRow(i, infos[i], statusDisplayLegacy(infos[i]),
                 summaryCell(infos[i], CrossMark \o " Error: access to GitHub"))]

(***************************************************************************)
(* src/main.go: the repo-list audit.                                       *)
(***************************************************************************)
\* strings.Fields on lines whose only white space is the space.
Fields(line) == SelectSeq(Split(line, " "), LAMBDA f : f # "")

NoLine == [owner |-> "", repo |-> "", currentVer |-> ""]

ownerSlashRepo(repoParts, currentVer) ==
    [owner |-> IF Len(repoParts) = 2 THEN repoParts[1] ELSE "",
     repo |-> IF Len(repoParts) = 2 THEN repoParts[2] ELSE "",
     currentVer |-> withV(currentVer)]

parseFields(parts) ==
    IF Len(parts) # 2 THEN NoLine ELSE ownerSlashRepo(Split(parts[1], "/"), parts[2])

parseLine(line) == parseFields(Fields(line))

changelogNote(release) ==
    "\n--- Changelog for " \o release.Name \o " (" \o release.TagName \o ") ---\n"
    \o release.Body \o "\n"

\* The loop "for _, release := range releases" of checkUpdate from index i
\* on; st holds info and the comparator operands so far.
RECURSIVE collectReleases(_, _, _)
collectRelease(releases, i, st, tag) ==
    collectReleases(releases, i + 1,
        Checked(IF Compare(st.info.CurrentVersion, tag) < 0
                THEN addNote(markSecurity(st.info, releases[i]), changelogNote(releases[i]))
                ELSE st.info,
                Append(st.compared, <<st.info.CurrentVersion, tag>>)))

collectReleases(releases, i, st) ==
    IF i > Len(releases) THEN st
    ELSE collectRelease(releases, i, st, withV(releases[i].TagName))

\* "Set final status" of checkUpdate.
withFinalStatusPlain(st) ==
    Returned([st.info EXCEPT !.Status =
                 IF st.info.SecurityPatch THEN StatusUrgent ELSE StatusRecommended],
             <<"Repositories.ListReleases">>, st.compared)

\* A variant that scans the releases before it compares the current with
\* the latest version: C20 distinguishes it from afterLatestRelease.
afterLatestReleaseScannedFirst(info, releases) ==
    IF ~(Compare(info.CurrentVersion, info.LatestVersion) < 0)
    THEN Returned([collectReleases(releases, 1, Checked(info, <<>>)).info
                      EXCEPT !.Status = StatusUpToDate],
                  <<"Repositories.ListReleases">>, versionsCompared(info))
    ELSE withFinalStatusPlain(
            collectReleases(releases, 1,
                            Checked([info EXCEPT !.UpdateNeeded = TRUE], versionsCompared(info))))

\* From the comparison of the current with the latest version on.
afterLatestRelease(info, releases) ==
    IF ~(Compare(info.CurrentVersion, info.LatestVersion) < 0)
    THEN Returned([info EXCEPT !.Status = StatusUpToDate],
                  <<"Repositories.ListReleases">>, versionsCompared(info))
    ELSE withFinalStatusPlain(
            collectReleases(releases, 1,
                            Checked([info EXCEPT !.UpdateNeeded = TRUE], versionsCompared(info))))

checkUpdateFrom(info, listed) ==
    IF listed.err # ""
    THEN Returned([info EXCEPT !.Status = CrossMark \o " ERROR: " \o listed.err],
                  <<"Repositories.ListReleases">>, <<>>)
    ELSE IF Len(listed.releases) = 0
    THEN Returned([info EXCEPT !.Status = CrossMark \o " ERROR: No releases found."],
                  <<"Repositories.ListReleases">>, <<>>)
    ELSE afterLatestRelease([info EXCEPT !.LatestVersion = withV(listed.releases[1].TagName)],
                            listed.releases)

\* checkUpdate(client, owner, repo, currentVer) of main.go, given the
\* answer of Repositories.ListReleases.
checkUpdate(owner, repo, currentVer, listed) ==
    checkUpdateFrom(newUpdateInfoPlain(owner \o "/" \o repo, currentVer), listed)

\* The test of main's loop that lets a parsed line through.
lineWanted(l) == ~(l.owner = "" \/ l.repo = "" \/ l.currentVer = "")

\* results = append(results, info), with the requests and the comparator
\* operands of the line kept beside the report.
lineReported(r, rest) ==
    [results |-> <<r.info>> \o rest.results,
     requests |-> <<r.requests>> \o rest.requests,
     compared |-> <<r.compared>> \o rest.compared]

\* One iteration of main's loop over the lines: a malformed line is
\* skipped ("continue"), any other is checked and its report appended.
auditLine(l, listed, rest) ==
    IF ~lineWanted(l) THEN rest
    ELSE lineReported(checkUpdate(l.owner, l.repo, l.currentVer, listed), rest)

\* "2. Process each repository" of main, from line i on.  entries[i] holds
\* the line and GitHub's answer about its repository.
RECURSIVE auditRepoList(_, _)
auditRepoList(entries, i) ==
    IF i > Len(entries) THEN [results |-> <<>>, requests |-> <<>>, compared |-> <<>>]
    ELSE auditLine(parseLine(entries[i].line), entries[i].listed,
                   auditRepoList(entries, i + 1))

\* The status line of main.go's writeOutput, recomputed from the flags.
statusText(info) ==
    IF info.SecurityPatch THEN Siren \o " URGENT Security Patch!"
    ELSE IF info.UpdateNeeded THEN StatusRecommended
    ELSE StatusUpToDate

\* writeOutput(infos, filename) of main.go: per report the heading, the
\* status line, the versions and, when an update is needed, the notes.
writeOutputPlain(infos) ==
    [i \in 1..Len(infos) |->
        [Repo |-> infos[i].Repo, statusText |-> statusText(infos[i]),
         CurrentVersion |-> infos[i].CurrentVersion,
         LatestVersion |-> infos[i].LatestVersion,
         changelog |-> IF infos[i].UpdateNeeded THEN infos[i].ReleaseNotesList ELSE <<>>]]

(***************************************************************************)
(* src/unnamed/part_000: the Erlang rebar.config audit.                    *)
(***************************************************************************)
firstTwo(parts) == IF Len(parts) >= 2 THEN [owner |-> parts[1], repo |-> parts[2]] ELSE NoRepo

parseGitHubURL(url) ==
    firstTwo(Split(TrimPrefix(TrimPrefix(TrimSuffix(url, ".git"), "git://"),
                              "https://github.com/"), "/"))

\* The loop over the tags of findLatestVersion from index i on; st holds
\* latestValidVersion and the comparator operands so far.
RECURSIVE highestTag(_, _, _)
\* A variant of the loop body that replaces the kept tag on ">= 0", so that
\* among equal-ranked tags the last one wins: C9 distinguishes it from
\* higherTag.
higherTagLastSeen(tags, i, st, verToCompare) ==
    highestTag(tags, i + 1,
        IF ~IsValid(verToCompare) THEN st
        ELSE IF st.latestValidVersion = ""
             THEN [st EXCEPT !.latestValidVersion = verToCompare]
        ELSE [latestValidVersion |->
                 IF Compare(verToCompare, st.latestValidVersion) >= 0
                 THEN verToCompare ELSE st.latestValidVersion,
              compared |-> Append(st.compared, <<verToCompare, st.latestValidVersion>>)])

higherTag(tags, i, st, verToCompare) ==
    highestTag(tags, i + 1,
        IF ~IsValid(verToCompare) THEN st
        ELSE IF st.latestValidVersion = ""
             THEN [st EXCEPT !.latestValidVersion = verToCompare]
        ELSE [latestValidVersion |->
                 IF Compare(verToCompare, st.latestValidVersion) > 0
                 THEN verToCompare ELSE st.latestValidVersion,
              compared |-> Append(st.compared, <<verToCompare, st.latestValidVersion>>)])

highestTag(tags, i, st) ==
    IF i > Len(tags) THEN st ELSE higherTag(tags, i, st, withV(tags[i]))

Found(version, err, requests, compared) ==
    [version |-> version, err |-> err, requests |-> requests, compared |-> compared]

\* After the loop over the tags: "if latestValidVersion == """.
afterTags(st) ==
    IF st.latestValidVersion = ""
    THEN Found("", "no valid semantic version tags found",
               <<"Repositories.GetLatestRelease", "Repositories.ListTags">>, st.compared)
    ELSE Found(st.latestValidVersion, "",
               <<"Repositories.GetLatestRelease", "Repositories.ListTags">>, st.compared)

\* findLatestVersion(client, owner, repo), given the answers of
\* GetLatestRelease (latest) and of ListTags (tagged).
findLatestVersion(latest, tagged) ==
    IF latest.err = "" /\ Len(latest.releases) > 0
    THEN Found(latest.releases[1].TagName, "", <<"Repositories.GetLatestRelease">>, <<>>)
    ELSE IF tagged.err # ""
    THEN Found("", "could not retrieve tags: " \o tagged.err,
               <<"Repositories.GetLatestRelease", "Repositories.ListTags">>, <<>>)
    ELSE afterTags(highestTag(tagged.tags, 1, [latestValidVersion |-> "", compared |-> <<>>]))

StatusInvalidDependency == CrossMark \o " Invalid dependency details"
StatusUpdateAvailable == UpArrow \o " Update Available"
StatusUpToDateErlang == CheckMark \o " Up to Date"

\* The version comparison of checkUpdateAndCreateReport.
updateAvailable(latestVerWithV, currentVer) == Compare(latestVerWithV, currentVer) > 0

versionReported(dep, update, latestVerWithV) ==
    [dep EXCEPT !.UpdateNeeded = update,
                !.Status = IF update THEN StatusUpdateAvailable ELSE StatusUpToDateErlang,
                !.LatestVersion = TrimPrefix(latestVerWithV, "v")]

\* From findLatestVersion's result on.
afterFindLatest(dep, currentVer, f) ==
    IF f.err # ""
    THEN Returned([dep EXCEPT !.Status = CrossMark \o " Error: " \o f.err],
                  f.requests, f.compared)
    ELSE Returned(versionReported(dep, updateAvailable(f.version, currentVer), f.version),
                  f.requests, Append(f.compared, <<f.version, currentVer>>))

auditParsed(dep, src, currentVer, latest, tagged) ==
    IF src.owner = "" \/ src.repo = "" \/ ~IsValid(currentVer)
    THEN Returned([dep EXCEPT !.Status = StatusInvalidDependency], <<>>, <<>>)
    ELSE afterFindLatest(dep, currentVer, findLatestVersion(latest, tagged))

\* One iteration of the loop of checkUpdateAndCreateReport: the report of
\* dep, the requests issued for it and the comparator operands.
auditDependency(dep, latest, tagged) ==
    auditParsed(dep, parseGitHubURL(dep.RepoURL), withV(dep.CurrentVersion), latest, tagged)

\* "4. Filter and prepare dependencies" of main: the entries whose version
\* is valid with "v" in front.
filteredDeps(deps) == SelectSeq(deps, LAMBDA dep : IsValid(withV(dep.CurrentVersion)))

\* checkUpdateAndCreateReport(client, deps) from entry i on: the reports,
\* in the order of deps, with the requests and the comparator operands of
\* each entry.  answers[i] holds the upstream's answers for deps[i].
RECURSIVE checkUpdateAndCreateReport(_, _, _)
\* The loop leaving at the first entry that fails ("break" for "continue").
reportAndStopAtFailure(r, rest) ==
    IF HasPrefix(r.info.Status, CrossMark)
    THEN [results |-> <<r.info>>, requests |-> <<r.requests>>, compared |-> <<r.compared>>]
    ELSE [results |-> <<r.info>> \o rest.results,
          requests |-> <<r.requests>> \o rest.requests,
          compared |-> <<r.compared>> \o rest.compared]

reportAndRest(r, rest) ==
    [results |-> <<r.info>> \o rest.results,
     requests |-> <<r.requests>> \o rest.requests,
     compared |-> <<r.compared>> \o rest.compared]

checkUpdateAndCreateReport(deps, answers, i) ==
    IF i > Len(deps) THEN [results |-> <<>>, requests |-> <<>>, compared |-> <<>>]
    ELSE reportAndRest(auditDependency(deps[i], answers[i].latest, answers[i].tagged),
                       checkUpdateAndCreateReport(deps, answers, i + 1))

(***************************************************************************)
(* The upstream: what the registry and GitHub may answer.                  *)
(***************************************************************************)
MaxReleases == 2        \* longest release list GitHub answers with
MaxTags == 2            \* longest tag list GitHub answers with
MaxDeps == 2            \* most entries of a rebar.config
MaxLines == 2           \* most lines of a repo list

SeqsUpTo(S, n) == UNION {[1..k -> S] : k \in 0..n}

PkgNames == {"widget"}
RawVersions ==
    {"^1.9.0", "~v1.9.0", "<1.9.0", ">= 1.9.0", "1.10.0", "main", "file:libs/widget"}
RepoURLs == {"", "git+https://github.com/acme/widget.git", "https://github.com/acme"}

NpmResponses ==
    {[err |-> "npm API returned status 404 for package widget", Version |-> "", URL |-> ""]}
    \cup [err : {""}, Version : {"1.10.0", "1.9.0"}, URL : RepoURLs]

DetailsResponses ==
    {[err |-> "404 Not Found", Archived |-> FALSE]} \cup [err : {""}, Archived : BOOLEAN]

\* A release body of markdown with a table in it, longer than an excerpt.
TableBody ==
    "## Changes\n* **Parser** rewritten to stream its input\n"
    \o "| option | default |\n| depth | 10 |\n* see [the guide](docs/guide.md)"

ReleaseTags == {"v1.10.0", "v1.8.0", "widget@1.10.0"}
Releases ==
    [TagName : ReleaseTags, Name : {"Release"}, Body : {"routine refactor"}]
    \cup [TagName : ReleaseTags, Name : {"Security fix"}, Body : {TableBody}]

\* Release texts with each keyword alone and in several letter cases, and
\* texts with none, one with the "---" of the notes' frame and the empty
\* text; a release carries one as its title or as its body.
ReleaseTexts ==
    {"Security fix", "CVE-2024-1", "vulnerability patched", "SECURITY", "Vulnerability",
     "Hotfix PATCH", "dispatch queue", "routine refactor", "secure city",
     "v2 --- final", ""}

TextReleases ==
    [TagName : {"v1.10.0"}, Name : ReleaseTexts, Body : {"notes"}]
    \cup [TagName : {"v1.10.0"}, Name : {"Release"}, Body : ReleaseTexts]

ResetEpoch == "1704067200"

\* A GitHub answer that carries an HTTP response.
httpAnswer(status, remaining, reset, err, releases) ==
    [hasResp |-> TRUE, StatusCode |-> status, Remaining |-> remaining,
     Reset |-> reset, err |-> err, releases |-> releases]

\* The answers to a GitHub call that fail: no response at all (transport),
\* the primary rate limit (with and without a reset header), a 403 with
\* quota left, a 404.
FailedAnswers ==
    {[hasResp |-> FALSE, StatusCode |-> 0, Remaining |-> "", Reset |-> "",
      err |-> "dial tcp: i/o timeout", releases |-> <<>>],
     httpAnswer(403, "0", ResetEpoch, "403 API rate limit exceeded", <<>>),
     httpAnswer(403, "0", "", "403 API rate limit exceeded", <<>>),
     httpAnswer(403, "10", ResetEpoch, "403 Forbidden", <<>>),
     httpAnswer(404, "59", ResetEpoch,
                "GET https://api.github.com/repos/acme/widget: 404 Not Found []", <<>>)}

\* Answers of Repositories.ListReleases.
ListResponses ==
    FailedAnswers
    \cup {httpAnswer(200, "58", ResetEpoch, "", rs) : rs \in SeqsUpTo(Releases, MaxReleases)}
    \cup {httpAnswer(200, "58", ResetEpoch, "", <<r>>) : r \in TextReleases}

\* Answers of Repositories.GetLatestRelease to the frontend.
LatestResponses ==
    FailedAnswers \cup {httpAnswer(200, "58", ResetEpoch, "", <<r>>) : r \in Releases}

\* Answers of Repositories.ListTags.
TagNames == {"1.10.0", "v1.9.0", "v1.10", "tip"}
TagResponses ==
    {[err |-> "500 Internal Server Error", tags |-> <<>>]}
    \cup {[err |-> "", tags |-> ts] : ts \in SeqsUpTo(TagNames, MaxTags)}

\* The answer of a request the evaluation did not issue.
NotAsked == [hasResp |-> FALSE, StatusCode |-> 0, Remaining |-> "", Reset |-> "",
             err |-> "not asked", releases |-> <<>>]
NpmNotAsked == [err |-> "not asked", Version |-> "", URL |-> ""]
DetailsNotAsked == [err |-> "not asked", Archived |-> FALSE]
TagsNotAsked == [err |-> "not asked", tags |-> <<>>]
NothingAsked == [npm |-> NpmNotAsked, details |-> DetailsNotAsked, listed |-> NotAsked,
                 latest |-> NotAsked, tagged |-> TagsNotAsked]

Asked(reqs, name) == \E i \in 1..Len(reqs) : reqs[i] = name

\* The answers the upstream may give to a request: those of S when the
\* evaluation issues the request, and only "not asked" when it does not.
AnswersFor(S, none, asked) == IF asked THEN S ELSE {none}

\* The repository URLs a registry may declare, by their parts: the prefix
\* parseGitHubRepoURL knows, the host, an optional port, the segments of
\* the path, an optional ".git" and an optional fragment.
URLPrefixes == {"git://", "git+https://", "https://", "http://", "git@"}
URLHosts == {"github.com", "gitlab.com", "bitbucket.org"}
URLPorts == {"", ":443"}
URLPaths == {<<"acme">>, <<"acme", "widget">>, <<"acme", "widget", "tree">>}
URLFragments == {"", "#readme"}

RECURSIVE JoinPath(_)
JoinPath(segments) ==
    IF Len(segments) = 1 THEN segments[1]
    ELSE segments[1] \o "/" \o JoinPath(Tail(segments))

\* The URL of the parts u: prefix host[:port]/path[.git][#fragment], and
\* git@host:path[.git][#fragment] in the scp-like form.
URLOf(u) ==
    u.prefix \o u.host \o u.port \o (IF u.prefix = "git@" THEN ":" ELSE "/")
    \o JoinPath(u.path) \o (IF u.dotGit THEN ".git" ELSE "") \o u.fragment

SourceURLs ==
    {u \in [prefix : URLPrefixes, host : URLHosts, port : URLPorts, path : URLPaths,
            dotGit : BOOLEAN, fragment : URLFragments] :
        u.prefix = "git@" => u.port = ""}

\* The lines of the repo list (input.txt of main.go).
RepoLines == {"acme/widget 1.9.0", "acme/widget v1.10.0", "acme/widget main",
              "acme/widget", "widget 1.9.0"}

\* GitHub's answers about the repository of one line of a list: a
\* transport failure, a 404, no release, a routine and a security release.
RepoListAnswers ==
    {[hasResp |-> FALSE, StatusCode |-> 0, Remaining |-> "", Reset |-> "",
      err |-> "dial tcp: i/o timeout", releases |-> <<>>],
     httpAnswer(404, "59", ResetEpoch,
                "GET https://api.github.com/repos/acme/widget: 404 Not Found []", <<>>),
     httpAnswer(200, "58", ResetEpoch, "", <<>>),
     httpAnswer(200, "58", ResetEpoch, "",
                <<[TagName |-> "v1.10.0", Name |-> "Release", Body |-> "routine refactor"]>>),
     httpAnswer(200, "58", ResetEpoch, "",
                <<[TagName |-> "v1.10.0", Name |-> "Security fix", Body |-> TableBody]>>)}

\* A line of the list with the answer read for it; nothing is asked about
\* a malformed line.
RepoListEntries ==
    {e \in [line : RepoLines, listed : RepoListAnswers \cup {NotAsked}] :
        (e.listed = NotAsked) = ~lineWanted(parseLine(e.line))}

\* The entries parseErlangDeps yields, and the answers of GitHub about one.
ErlangDeps ==
    [Name : {"p1_utils"}, CurrentVersion : {"1.9.0", "main"},
     RepoURL : {"https://github.com/acme/widget.git", "https://github.com/acme"},
     LatestVersion : {""}, UpdateNeeded : {FALSE}, Status : {""}]

ErlangReleases == [TagName : {"v1.10.0", "1.10.0", "v1.9.0"}, Name : {"Release"}, Body : {"notes"}]
ErlangLatestResponses ==
    {httpAnswer(404, "59", ResetEpoch, "404 Not Found", <<>>)}
    \cup {httpAnswer(200, "58", ResetEpoch, "", <<r>>) : r \in ErlangReleases}
ErlangTagResponses ==
    {[err |-> "500 Internal Server Error", tags |-> <<>>],
     [err |-> "", tags |-> <<>>],
     [err |-> "", tags |-> <<"v1.9.0", "1.10.0">>]}

asksAsAnswered(e, reqs) ==
    /\ (e.latest = NotAsked) = ~Asked(reqs, "Repositories.GetLatestRelease")
    /\ (e.tagged = TagsNotAsked) = ~Asked(reqs, "Repositories.ListTags")

\* An entry with the answers the audit reads for it.
ErlangEntries ==
    {e \in [dep : ErlangDeps,
            latest : ErlangLatestResponses \cup {NotAsked},
            tagged : ErlangTagResponses \cup {TagsNotAsked}] :
        asksAsAnswered(e, auditDependency(e.dep, e.latest, e.tagged).requests)}

(***************************************************************************)
(* State: one evaluation at a time.  call is the function evaluated and    *)
(* its arguments, upstream the answers it read, requests the upstream      *)
(* requests it issued, compared the operand pairs it handed to             *)
(* semver.Compare; info is the UpdateInfo returned by checkNpmUpdate and   *)
(* checkUpdate, found the (version, error) returned by findLatestVersion,  *)
(* results the reports returned by checkUpdateAndCreateReport, source the  *)
(* (owner, repo) returned by parseGitHubRepoURL, rendered the table rows   *)
(* writeOutput wrote.                                                      *)
(***************************************************************************)
VARIABLES pc, call, upstream, info, found, results, requests, compared, source, rendered
vars == <<pc, call, upstream, info, found, results, requests, compared, source, rendered>>

NoCall == [fn |-> "", name |-> "", currentVer |-> ""]
NothingFound == [version |-> "", err |-> ""]

Init ==
    /\ pc = "idle"
    /\ call = NoCall
    /\ upstream = NothingAsked
    /\ info = newUpdateInfoPlain("", "")
    /\ found = NothingFound
    /\ results = <<>>
    /\ requests = <<>>
    /\ compared = <<>>
    /\ source = NoRepo
    /\ rendered = <<>>

\* The writeOutput of the program whose evaluation function is fn.
writeOutputOf(fn, infos) ==
    CASE fn = "checkNpmUpdate" -> writeOutput(infos)
      [] fn = "checkNpmUpdateLegacy" -> writeOutputLegacy(infos)
      [] fn = "checkUpdate" -> writeOutputPlain(infos)

\* The evaluation c, which read the answers u, returns the report r, and
\* main writes the report out.
ReturnInfo(c, u, r) ==
    /\ pc' = "returned"
    /\ call' = c
    /\ upstream' = u
    /\ info' = r.info
    /\ requests' = r.requests
    /\ compared' = r.compared
    /\ rendered' = writeOutputOf(c.fn, <<r.info>>)
    /\ UNCHANGED <<found, results, source>>

\* A package main's filter leaves out.
SkipPackage(pkgName, ver) ==
    /\ pc' = "returned"
    /\ call' = [fn |-> "skipped", name |-> pkgName, currentVer |-> ver]
    /\ UNCHANGED <<upstream, info, found, results, requests, compared, source, rendered>>

\* One package of package.json in frontend.go's main: left out by the
\* filter, or handed to checkNpmUpdate.
CheckNpmUpdate ==
    /\ pc = "idle"
    /\ \E pkgName \in PkgNames, currentVer \in RawVersions :
       IF ~packageWanted(currentVer) THEN SkipPackage(pkgName, currentVer)
       ELSE
       \E npm \in NpmResponses :
       \E details \in AnswersFor(DetailsResponses, DetailsNotAsked,
             Asked(checkNpmUpdate(pkgName, currentVer, npm, DetailsNotAsked, NotAsked).requests,
                   "Repositories.Get")) :
       \E listed \in AnswersFor(ListResponses, NotAsked,
             Asked(checkNpmUpdate(pkgName, currentVer, npm, details, NotAsked).requests,
                   "Repositories.ListReleases")) :
          ReturnInfo([fn |-> "checkNpmUpdate", name |-> pkgName, currentVer |-> currentVer],
                     [NothingAsked EXCEPT !.npm = npm, !.details = details, !.listed = listed],
                     checkNpmUpdate(pkgName, currentVer, npm, details, listed))

\* One package of package.json in part_001's main.
CheckNpmUpdateLegacy ==
    /\ pc = "idle"
    /\ \E pkgName \in PkgNames, currentVer \in RawVersions :
       IF ~packageWanted(currentVer) THEN SkipPackage(pkgName, currentVer)
       ELSE
       \E npm \in NpmResponses :
       \E latest \in AnswersFor(LatestResponses, NotAsked,
             Asked(checkNpmUpdateLegacy(pkgName, currentVer, npm, NotAsked, TagsNotAsked).requests,
                   "Repositories.GetLatestRelease")) :
       \E tagged \in AnswersFor(TagResponses, TagsNotAsked,
             Asked(checkNpmUpdateLegacy(pkgName, currentVer, npm, latest, TagsNotAsked).requests,
                   "Repositories.ListTags")) :
          ReturnInfo([fn |-> "checkNpmUpdateLegacy", name |-> pkgName, currentVer |-> currentVer],
                     [NothingAsked EXCEPT !.npm = npm, !.latest = latest, !.tagged = tagged],
                     checkNpmUpdateLegacy(pkgName, currentVer, npm, latest, tagged))

\* The line l of the repo list, parsed, in main.go's loop.
CheckLine(line, l) ==
    IF l.owner = "" \/ l.repo = "" \/ l.currentVer = ""
    THEN /\ pc' = "returned"
         /\ call' = [fn |-> "skipped", name |-> line, currentVer |-> ""]
         /\ UNCHANGED <<upstream, info, found, results, requests, compared, source, rendered>>
    ELSE \E listed \in ListResponses :
            ReturnInfo([fn |-> "checkUpdate", name |-> l.owner \o "/" \o l.repo,
                        currentVer |-> l.currentVer],
                       [NothingAsked EXCEPT !.listed = listed],
                       checkUpdate(l.owner, l.repo, l.currentVer, listed))

\* One line of the repo list in main.go's loop: a malformed line is
\* skipped, any other goes to checkUpdate.
CheckUpdate ==
    /\ pc = "idle"
    /\ \E line \in RepoLines : CheckLine(line, parseLine(line))

ReturnFound(u, r) ==
    /\ pc' = "returned"
    /\ call' = [fn |-> "findLatestVersion", name |-> "acme/widget", currentVer |-> ""]
    /\ upstream' = u
    /\ found' = [version |-> r.version, err |-> r.err]
    /\ requests' = r.requests
    /\ compared' = r.compared
    /\ UNCHANGED <<info, results, source, rendered>>

\* One call of part_000's findLatestVersion.
FindLatestVersion ==
    /\ pc = "idle"
    /\ \E latest \in ErlangLatestResponses :
       \E tagged \in AnswersFor(TagResponses, TagsNotAsked,
             Asked(findLatestVersion(latest, TagsNotAsked).requests, "Repositories.ListTags")) :
          ReturnFound([NothingAsked EXCEPT !.latest = latest, !.tagged = tagged],
                      findLatestVersion(latest, tagged))

ReturnResults(parsed, deps, entries, r) ==
    /\ pc' = "returned"
    /\ call' = [fn |-> "checkUpdateAndCreateReport", name |-> "", currentVer |-> "",
                parsed |-> parsed, deps |-> deps]
    /\ upstream' = entries
    /\ results' = r.results
    /\ requests' = r.requests
    /\ compared' = r.compared
    /\ UNCHANGED <<info, found, source, rendered>>

depsOf(entries) == [i \in 1..Len(entries) |-> entries[i].dep]

\* The entries of those of rebar.config that main's filter keeps.
filteredEntries(entries) ==
    SelectSeq(entries, LAMBDA e : IsValid(withV(e.dep.CurrentVersion)))

\* main with nothing left to audit: checkUpdateAndCreateReport is not called.
NothingToAudit(parsed) ==
    /\ pc' = "returned"
    /\ call' = [fn |-> "skipped", name |-> "", currentVer |-> "", parsed |-> parsed]
    /\ UNCHANGED <<upstream, info, found, results, requests, compared, source, rendered>>

AuditFiltered(parsed, entries) ==
    IF entries = <<>> THEN NothingToAudit(parsed)
    ELSE ReturnResults(parsed, depsOf(entries), entries,
                       checkUpdateAndCreateReport(depsOf(entries), entries, 1))

\* part_000's main from "4. Filter and prepare dependencies" on: the
\* entries of rebar.config with a valid version go to
\* checkUpdateAndCreateReport; upstream, requests and compared are kept
\* per audited entry.
CheckUpdateAndCreateReport ==
    /\ pc = "idle"
    /\ \E entries \in SeqsUpTo(ErlangEntries, MaxDeps) :
          AuditFiltered(depsOf(entries), filteredEntries(entries))

linesOf(entries) == [i \in 1..Len(entries) |-> entries[i].line]

ReturnReports(entries, r) ==
    /\ pc' = "returned"
    /\ call' = [fn |-> "main", name |-> "input.txt", currentVer |-> "",
                lines |-> linesOf(entries)]
    /\ upstream' = entries
    /\ results' = r.results
    /\ requests' = r.requests
    /\ compared' = r.compared
    /\ rendered' = writeOutputPlain(r.results)
    /\ UNCHANGED <<info, found, source>>

\* main.go's main on a list of lines: every line is parsed and checked in
\* turn, then the reports are written out.
AuditRepoList ==
    /\ pc = "idle"
    /\ \E entries \in SeqsUpTo(RepoListEntries, MaxLines) :
          ReturnReports(entries, auditRepoList(entries, 1))

\* One call of parseGitHubRepoURL (frontend.go and part_001, the same
\* code) on the URL of the parts u.
ParseGitHubRepoURL ==
    /\ pc = "idle"
    /\ \E u \in SourceURLs :
          /\ pc' = "returned"
          /\ call' = [fn |-> "parseGitHubRepoURL", name |-> URLOf(u), currentVer |-> "",
                      url |-> u]
          /\ source' = parseGitHubRepoURL(URLOf(u))
          /\ UNCHANGED <<upstream, info, found, results, requests, compared, rendered>>

Next ==
    \/ ParseGitHubRepoURL
    \/ CheckNpmUpdate
    \/ CheckNpmUpdateLegacy
    \/ CheckUpdate
    \/ AuditRepoList
    \/ FindLatestVersion
    \/ CheckUpdateAndCreateReport

Spec == Init /\ [][Next]_vars

(***************************************************************************)
(* Vocabulary of the properties.                                           *)
(***************************************************************************)
ReturnedBy(fn) == pc = "returned" /\ call.fn = fn

\* The report is an error classification.
isError(status) == HasPrefix(status, CrossMark)

\* v is an operand of one of the comparisons logged in pairs.
Operand(pairs, v) == \E i \in 1..Len(pairs) : pairs[i][1] = v \/ pairs[i][2] = v

strictlyNewer(tag, currentVer) ==
    IsValid(tag) /\ IsValid(currentVer) /\ Compare(tag, currentVer) > 0

\* Some release of the list is strictly newer than the current version and
\* carries a security keyword; the tag is read as the frontend reads it.
newerSecurityRelease(releases, currentVer) ==
    \E i \in 1..Len(releases) :
        securityKeywords(releases[i]) /\ strictlyNewer(cleanTag(releases[i].TagName), currentVer)

\* The same with the tag as main.go reads it.
newerSecurityReleasePlain(releases, currentVer) ==
    \E i \in 1..Len(releases) :
        securityKeywords(releases[i]) /\ strictlyNewer(withV(releases[i].TagName), currentVer)

RoutineRelease(tag) == [TagName |-> tag, Name |-> "Release", Body |-> "routine refactor"]
SecurityRelease(tag) == [TagName |-> tag, Name |-> "Security fix", Body |-> TableBody]

(***************************************************************************)
(* C1.  Security propagation: when the release list the upstream returned  *)
(* holds a release strictly newer than the current version with a security *)
(* keyword in its title or body, the returned report has SecurityPatch =   *)
(* TRUE, wherever the release stands in the list (checkNpmUpdate of        *)
(* frontend.go and of part_001, checkUpdate of main.go).                   *)
(* Violated: frontend.go leaves its loop at the first release that is not  *)
(* newer, and main.go returns "Up to date" when releases[0] is not newer.  *)
(***************************************************************************)
C1_SecurityPropagates ==
    /\ ( /\ ReturnedBy("checkNpmUpdate")
         /\ Asked(requests, "Repositories.ListReleases")
         /\ upstream.listed.err = ""
         /\ newerSecurityRelease(upstream.listed.releases, info.CurrentVersion) )
       => info.SecurityPatch
    /\ ( /\ ReturnedBy("checkNpmUpdateLegacy")
         /\ Asked(requests, "Repositories.GetLatestRelease")
         /\ upstream.latest.err = ""
         /\ newerSecurityRelease(upstream.latest.releases, info.CurrentVersion) )
       => info.SecurityPatch
    /\ ( /\ ReturnedBy("checkUpdate")
         /\ upstream.listed.err = ""
         /\ newerSecurityReleasePlain(upstream.listed.releases, info.CurrentVersion) )
       => info.SecurityPatch

\* The input on which C1 fails: 1.9.0 installed, 1.10.0 in the registry, and
\* a release list whose first entry is the older v1.8.0 and whose second is
\* the security release v1.10.0.
C1_SecurityReleaseSecond ==
    /\ ReturnedBy("checkNpmUpdate")
    /\ call.currentVer = "^1.9.0"
    /\ upstream.npm.Version = "1.10.0"
    /\ upstream.listed.releases = <<RoutineRelease("v1.8.0"), SecurityRelease("v1.10.0")>>
    /\ ~info.SecurityPatch

(***************************************************************************)
(* C2.  Status precedence: in every report of frontend.go's checkNpmUpdate *)
(* an archived upstream gives a DEPRECATED label even when SecurityPatch   *)
(* is TRUE; otherwise SecurityPatch gives the security-urgent label.       *)
(***************************************************************************)
C2_StatusPrecedence ==
    ReturnedBy("checkNpmUpdate") =>
        /\ info.IsArchived => HasPrefix(info.Status, NoEntry \o " DEPRECATED")
        /\ (~info.IsArchived /\ info.SecurityPatch) => info.Status = StatusUrgent

\* An archived upstream with a newer security release.
C2_ArchivedWithSecurityPatch ==
    /\ ReturnedBy("checkNpmUpdate")
    /\ info.IsArchived
    /\ info.SecurityPatch
    /\ info.Status = StatusDeprecatedUpdateNeeded

(***************************************************************************)
(* C3.  Deprecated labels follow the update flag: an archived upstream is  *)
(* reported "DEPRECATED (Update Needed)" when UpdateNeeded is TRUE and     *)
(* "DEPRECATED (Up to date)" when it is FALSE.                             *)
(* Violated: with UpdateNeeded FALSE checkNpmUpdate returns at "if         *)
(* info.IsArchived && !info.UpdateNeeded" with "DEPRECATED (Archived)".    *)
(***************************************************************************)
C3_DeprecatedLabelFollowsUpdateFlag ==
    (ReturnedBy("checkNpmUpdate") /\ info.IsArchived) =>
        info.Status = IF info.UpdateNeeded THEN StatusDeprecatedUpdateNeeded
                      ELSE StatusDeprecatedUpToDate

\* The input on which C3 fails: the installed version is the latest and the
\* repository is archived.
C3_ArchivedUpToDate ==
    /\ ReturnedBy("checkNpmUpdate")
    /\ call.currentVer = "1.10.0"
    /\ upstream.npm.Version = "1.10.0"
    /\ upstream.details.err = ""
    /\ upstream.details.Archived
    /\ info.Status = StatusArchived

(***************************************************************************)
(* C4.  Up-to-date classification: when the registry fetch succeeds, the   *)
(* latest version is not greater than the current one and the upstream is  *)
(* not known to be archived, the report of checkNpmUpdate has UpdateNeeded *)
(* = FALSE and the status "Up to date", whatever the repository URL.       *)
(* Violated: an empty or unparseable URL gives "Update Recommended (Repo   *)
(* link missing)" before the version is looked at.                         *)
(***************************************************************************)
C4_UpToDateWhateverTheURL ==
    ( /\ ReturnedBy("checkNpmUpdate")
      /\ upstream.npm.err = ""
      /\ Compare(info.LatestVersion, info.CurrentVersion) <= 0
      /\ ~info.IsArchived )
    => (~info.UpdateNeeded /\ info.Status = StatusUpToDate)

\* The input on which C4 fails: the installed version is the latest and the
\* registry declares no repository.
C4_UpToDateWithoutRepoURL ==
    /\ ReturnedBy("checkNpmUpdate")
    /\ call.currentVer = "1.10.0"
    /\ upstream.npm.Version = "1.10.0"
    /\ upstream.npm.URL = ""
    /\ ~info.UpdateNeeded
    /\ info.Status = StatusRepoLinkMissing

(***************************************************************************)
(* C5.  No changelog fetch when up to date: when the latest version is not *)
(* greater than the current one, checkNpmUpdate (frontend.go and part_001) *)
(* returns without having issued ListReleases or GetLatestRelease, and     *)
(* with an empty ReleaseNotesList.                                         *)
(***************************************************************************)
C5_NoChangelogFetchWhenUpToDate ==
    ( /\ pc = "returned"
      /\ call.fn \in {"checkNpmUpdate", "checkNpmUpdateLegacy"}
      /\ upstream.npm.err = ""
      /\ Compare(info.LatestVersion, info.CurrentVersion) <= 0 )
    => /\ ~Asked(requests, "Repositories.ListReleases")
       /\ ~Asked(requests, "Repositories.GetLatestRelease")
       /\ info.ReleaseNotesList = <<>>

\* An up-to-date dependency whose repository was looked up (so that the
\* evaluation went past the archive check) and no release was asked for.
C5_UpToDateAfterRepositoryLookup ==
    /\ ReturnedBy("checkNpmUpdate")
    /\ Compare(info.LatestVersion, info.CurrentVersion) <= 0
    /\ requests = <<"fetchNpmInfo", "Repositories.Get">>
    /\ info.Status = StatusUpToDate
    /\ info.ReleaseNotesList = <<>>

(***************************************************************************)
(* C6.  Invalid current version: in every pipeline a dependency whose      *)
(* current version does not normalise to a valid semantic version ends in  *)
(* an error classification (or is left out before the evaluation), and its *)
(* version is never an operand of the semver comparison.                   *)
(* Violated: frontend.go, part_001 and main.go do not validate the version *)
(* and hand "vmain" to semver.Compare; only part_000 rejects it.           *)
(***************************************************************************)
C6_InvalidCurrentVersionIsAnError ==
    /\ ( /\ pc = "returned"
         /\ call.fn \in {"checkNpmUpdate", "checkNpmUpdateLegacy", "checkUpdate"}
         /\ ~IsValid(info.CurrentVersion) )
       => (isError(info.Status) /\ ~Operand(compared, info.CurrentVersion))
    /\ ReturnedBy("checkUpdateAndCreateReport") =>
          /\ filteredDeps(call.parsed) = call.deps
          /\ \A i \in 1..Len(results) :
                ~IsValid(withV(call.deps[i].CurrentVersion)) =>
                   /\ isError(results[i].Status)
                   /\ ~Operand(compared[i], withV(call.deps[i].CurrentVersion))

\* The input on which C6 fails: the version "main" with 1.10.0 in the
\* registry; "vmain" reaches the comparator and the report is no error.
C6_MainIsCompared ==
    /\ ReturnedBy("checkNpmUpdate")
    /\ call.currentVer = "main"
    /\ upstream.npm.Version = "1.10.0"
    /\ compared[1] = <<"vmain", "v1.10.0">>
    /\ ~isError(info.Status)

(***************************************************************************)
(* C7.  Incomparable never means update: when the normalised current or    *)
(* the normalised latest version is not a valid semantic version, the      *)
(* report has UpdateNeeded = FALSE, in every pipeline.                     *)
(* Violated: semver.Compare orders an invalid version below every valid    *)
(* one, so that "vmain" against "v1.10.0" sets UpdateNeeded in frontend.go,*)
(* part_001 and main.go.                                                   *)
(***************************************************************************)
C7_InvalidOperandNeverMeansUpdate ==
    /\ ( /\ pc = "returned"
         /\ call.fn \in {"checkNpmUpdate", "checkNpmUpdateLegacy", "checkUpdate"}
         /\ (~IsValid(info.CurrentVersion) \/ ~IsValid(info.LatestVersion)) )
       => ~info.UpdateNeeded
    /\ ReturnedBy("checkUpdateAndCreateReport") =>
          \A i \in 1..Len(results) :
             ( \/ ~IsValid(withV(call.deps[i].CurrentVersion))
               \/ /\ compared[i] # <<>>
                  /\ ~IsValid(compared[i][Len(compared[i])][1]) )
             => ~results[i].UpdateNeeded

\* The input on which C7 fails: "acme/widget main" in the repo list with
\* v1.10.0 the newest release; the report has UpdateNeeded = TRUE.
C7_MainNeedsUpdate ==
    /\ ReturnedBy("checkUpdate")
    /\ info.CurrentVersion = "vmain"
    /\ info.LatestVersion = "v1.10.0"
    /\ info.UpdateNeeded

(***************************************************************************)
(* C8.  Like-for-like comparison in the Erlang pipeline: whenever the      *)
(* version findLatestVersion returned denotes a semantic version strictly  *)
(* greater than the valid current version, the report of                   *)
(* checkUpdateAndCreateReport has UpdateNeeded = TRUE and the status       *)
(* "Update Available", with or without a leading "v" on the upstream tag.  *)
(* Violated: the latest release's tag is returned as it is, and a tag      *)
(* without "v" is an invalid operand of semver.Compare, which ranks it     *)
(* below the current version.                                              *)
(***************************************************************************)
C8_NewerLatestMeansUpdate ==
    ReturnedBy("checkUpdateAndCreateReport") =>
        \A i \in 1..Len(results) :
            ( /\ ~isError(results[i].Status)
              /\ strictlyNewer(withV(results[i].LatestVersion),
                               withV(call.deps[i].CurrentVersion)) )
            => (results[i].UpdateNeeded /\ results[i].Status = StatusUpdateAvailable)

\* The input on which C8 fails: 1.9.0 in rebar.config and a latest release
\* tagged "1.10.0"; the report says "Up to Date".
C8_UnprefixedReleaseTag ==
    /\ ReturnedBy("checkUpdateAndCreateReport")
    /\ Len(results) = 1
    /\ call.deps[1].CurrentVersion = "1.9.0"
    /\ upstream[1].latest.err = ""
    /\ upstream[1].latest.releases[1].TagName = "1.10.0"
    /\ results[1].LatestVersion = "1.10.0"
    /\ results[1].Status = StatusUpToDateErlang

(***************************************************************************)
(* C9.  Tag fallback selection: when the latest-release query fails and    *)
(* the tag listing succeeds, findLatestVersion returns the listed tag that *)
(* is, with "v" in front, the greatest valid semantic version; tags that   *)
(* are not valid are ignored, of equal-ranked tags the first listed is     *)
(* kept, and when no listed tag is valid an error is returned and no       *)
(* version.                                                                *)
(***************************************************************************)
validTags(tags) == {i \in 1..Len(tags) : IsValid(withV(tags[i]))}

\* tags[i] is the first of the greatest valid tags.
firstGreatest(tags, i) ==
    /\ i \in validTags(tags)
    /\ \A j \in validTags(tags) :
          IF j < i THEN Compare(withV(tags[j]), withV(tags[i])) < 0
          ELSE Compare(withV(tags[j]), withV(tags[i])) <= 0

selectedFrom(tags) ==
    IF validTags(tags) = {}
    THEN found.err = "no valid semantic version tags found" /\ found.version = ""
    ELSE /\ found.err = ""
         /\ \E i \in 1..Len(tags) : firstGreatest(tags, i) /\ found.version = withV(tags[i])

C9_TagFallbackSelection ==
    ( /\ ReturnedBy("findLatestVersion")
      /\ upstream.latest.err # ""
      /\ upstream.tagged.err = "" )
    => selectedFrom(upstream.tagged.tags)

\* Two equal-ranked tags, the second written differently from the first,
\* after a failed latest-release query: the first is returned.
C9_FirstOfEqualTags ==
    /\ ReturnedBy("findLatestVersion")
    /\ upstream.latest.err # ""
    /\ upstream.tagged.tags = <<"v1.10", "1.10.0">>
    /\ found.version = "v1.10"
    /\ found.err = ""

(***************************************************************************)
(* C10.  Rate-limit classification: checkNpmUpdate (frontend.go and        *)
(* part_001) reports "Rate Limit Exceeded" if and only if the GitHub       *)
(* response has status 403 and a remaining quota of zero; a 403 with quota *)
(* left, or any other failure, is not reported as a rate limit.            *)
(* Violated: the quota test is strings.Contains(remaining, "0"), true of   *)
(* "10" as well.                                                           *)
(***************************************************************************)
quotaExhausted(resp) ==
    resp.hasResp /\ resp.StatusCode = HttpForbidden /\ resp.Remaining = "0"

rateLimitReported(notes) ==
    \E i \in 1..Len(notes) : HasPrefix(notes[i], CrossMark \o " GitHub Rate Limit Exceeded")

C10_RateLimitIffQuotaExhausted ==
    /\ (ReturnedBy("checkNpmUpdate") /\ Asked(requests, "Repositories.ListReleases"))
       => (rateLimitReported(info.ReleaseNotesList) <=> quotaExhausted(upstream.listed))
    /\ (ReturnedBy("checkNpmUpdateLegacy") /\ Asked(requests, "Repositories.GetLatestRelease"))
       => (rateLimitReported(info.ReleaseNotesList) <=> quotaExhausted(upstream.latest))

\* The input on which C10 fails: a 403 with ten requests left.
C10_ForbiddenWithQuotaLeft ==
    /\ ReturnedBy("checkNpmUpdate")
    /\ upstream.listed.hasResp
    /\ upstream.listed.StatusCode = 403
    /\ upstream.listed.Remaining = "10"
    /\ rateLimitReported(info.ReleaseNotesList)

(***************************************************************************)
(* C11.  GitHub/GitLab URL parsing: for a URL in one of the forms git://,  *)
(* git+https://, https://, http://, git@host:owner/repo whose host         *)
(* contains github.com or gitlab.com and whose path has at least two       *)
(* segments, parseGitHubRepoURL returns the first two segments after the   *)
(* host as (owner, repo), the fragment and the ".git" suffix removed.      *)
(* Violated: every URL is cut at its first ":", which is meant for the     *)
(* git@host:path form, so with a port the port is returned as the owner.   *)
(***************************************************************************)
knownHost(host) == Contains(host, "github.com") \/ Contains(host, "gitlab.com")

firstTwoSegments(path) == [owner |-> path[1], repo |-> path[2]]

C11_KnownHostOwnerAndRepo ==
    ( /\ ReturnedBy("parseGitHubRepoURL")
      /\ knownHost(call.url.host)
      /\ Len(call.url.path) >= 2 )
    => source = firstTwoSegments(call.url.path)

\* The input on which C11 fails.
C11_PortTakenForOwner ==
    /\ ReturnedBy("parseGitHubRepoURL")
    /\ call.name = "https://github.com:443/acme/widget.git"
    /\ source = [owner |-> "443", repo |-> "acme"]

(***************************************************************************)
(* C12.  Other-host URL parsing: for a URL whose host contains neither     *)
(* github.com nor gitlab.com, parseGitHubRepoURL returns the first two     *)
(* non-empty path segments as (owner, repo), and never the host as owner.  *)
(* Violated: the host is the first of the parts the code splits the URL    *)
(* into, and for another host parts[0], parts[1] are returned.             *)
(***************************************************************************)
C12_OtherHostOwnerAndRepo ==
    ( /\ ReturnedBy("parseGitHubRepoURL")
      /\ ~knownHost(call.url.host)
      /\ Len(call.url.path) >= 2 )
    => (source = firstTwoSegments(call.url.path) /\ source.owner # call.url.host)

\* The input on which C12 fails.
C12_HostTakenForOwner ==
    /\ ReturnedBy("parseGitHubRepoURL")
    /\ call.name = "https://bitbucket.org/acme/widget.git"
    /\ source = [owner |-> "bitbucket.org", repo |-> "acme"]

(***************************************************************************)
(* C13.  Unresolvable source is terminal and non-fatal: when the parsing   *)
(* of the URL yields an empty owner or an empty repo, the evaluation of    *)
(* the dependency issues no GitHub request, returns one report with a      *)
(* non-empty status, and the dependencies after it are still evaluated.    *)
(***************************************************************************)
unresolved(src) == src.owner = "" \/ src.repo = ""

noGitHubRequest(reqs) == \A i \in 1..Len(reqs) : ~HasPrefix(reqs[i], "Repositories.")

C13_UnresolvableSourceIsTerminal ==
    /\ ( /\ pc = "returned"
         /\ call.fn \in {"checkNpmUpdate", "checkNpmUpdateLegacy"}
         /\ upstream.npm.err = ""
         /\ unresolved(parseGitHubRepoURL(upstream.npm.URL)) )
       => (noGitHubRequest(requests) /\ info.Status # "" /\ info.Repo = call.name)
    /\ ReturnedBy("checkUpdateAndCreateReport") =>
          /\ Len(results) = Len(call.deps)
          /\ \A i \in 1..Len(call.deps) :
                unresolved(parseGitHubURL(call.deps[i].RepoURL)) =>
                   /\ requests[i] = <<>>
                   /\ results[i].Name = call.deps[i].Name
                   /\ results[i].Status # ""

\* An entry with an unparseable URL followed by one that is audited against
\* GitHub.
C13_AuditGoesOnAfterUnresolvable ==
    /\ ReturnedBy("checkUpdateAndCreateReport")
    /\ Len(results) = 2
    /\ unresolved(parseGitHubURL(call.deps[1].RepoURL))
    /\ results[1].Status = StatusInvalidDependency
    /\ requests[1] = <<>>
    /\ requests[2] # <<>>
    /\ results[2].Status = StatusUpdateAvailable

(***************************************************************************)
(* C14.  Bounded excerpt: in every row writeOutput renders (frontend.go    *)
(* and part_001), the changelog summary is at most 80 characters, followed *)
(* by the ellipsis when it was cut, and holds no pipe character that is    *)
(* not preceded by a backslash, whether the summary comes from a release   *)
(* body or from a warning or error note.                                   *)
(* Violated: only the release body goes through extractBodyFromChangelog   *)
(* and the cut at 80; the summary of an error note that names its          *)
(* repository is the note itself, neither cut nor escaped.                 *)
(***************************************************************************)
bounded(summary) ==
    \/ Len(summary) <= 80
    \/ Len(summary) <= 83 /\ HasSuffix(summary, "...")

pipesEscaped(summary) ==
    \A i \in 1..Len(summary) :
        CharAt(summary, i) = "|" => (i > 1 /\ CharAt(summary, i - 1) = "\\")

C14_BoundedExcerpt ==
    (pc = "returned" /\ call.fn \in {"checkNpmUpdate", "checkNpmUpdateLegacy"}) =>
        \A i \in 1..Len(rendered) :
            /\ bounded(rendered[i].changelogSummary)
            /\ pipesEscaped(rendered[i].changelogSummary)

\* The input on which C14 fails: ListReleases answers 404, and the note
\* with the error of the client is the summary, longer than 80 characters.
C14_ErrorNoteUncut ==
    /\ ReturnedBy("checkNpmUpdate")
    /\ upstream.listed.StatusCode = 404
    /\ Len(rendered) = 1
    /\ rendered[1].changelogSummary =
          "Could not list releases from GitHub (acme/widget). Error: " \o upstream.listed.err
    /\ Len(rendered[1].changelogSummary) > 83

(***************************************************************************)
(* C15.  Isolation and 1:1 reporting: checkUpdateAndCreateReport returns   *)
(* one report per entry it is given, and main.go's loop one report per     *)
(* well-formed line, in the order of the input; the report of an entry is  *)
(* the report the entry gets when it is audited alone, whatever happened   *)
(* to the other entries, and entries of the same name are reported each.   *)
(***************************************************************************)
wellFormed(entries) == SelectSeq(entries, LAMBDA e : lineWanted(parseLine(e.line)))

auditedAlone(dep, answers) == checkUpdateAndCreateReport(<<dep>>, <<answers>>, 1).results[1]

checkedAlone(entry) == auditRepoList(<<entry>>, 1).results[1]

C15_OneIsolatedReportPerEntry ==
    /\ ReturnedBy("checkUpdateAndCreateReport") =>
          /\ Len(results) = Len(call.deps)
          /\ \A i \in 1..Len(results) :
                /\ results[i] = auditedAlone(call.deps[i], upstream[i])
                /\ results[i].Name = call.deps[i].Name
    /\ ReturnedBy("main") =>
          /\ Len(results) = Len(wellFormed(upstream))
          /\ \A k \in 1..Len(results) : results[k] = checkedAlone(wellFormed(upstream)[k])

\* Reached: two entries of the same name, the first fails upstream, the
\* second is reported with its update.
C15_FailureThenReport ==
    /\ ReturnedBy("checkUpdateAndCreateReport")
    /\ Len(call.deps) = 2
    /\ call.deps[1].Name = call.deps[2].Name
    /\ HasPrefix(results[1].Status, CrossMark \o " Error: ")
    /\ results[2].Status = StatusUpdateAvailable

(***************************************************************************)
(* C16.  Security keyword detection: the flag of a release is set if and   *)
(* only if the text of its body and title, letter case set aside, holds    *)
(* one of "security", "vulnerability", "cve", "patch".  Stated on the      *)
(* reports of checkNpmUpdate (frontend.go) and checkUpdate (main.go) whose *)
(* release list is one release newer than the current version.             *)
(***************************************************************************)
Keywords == {"security", "vulnerability", "cve", "patch"}

\* keyword stands in text at position i, in any letter case.
foldedAt(text, keyword, i) ==
    /\ i + Len(keyword) - 1 <= Len(text)
    /\ ToLower(SubSeq(text, i, i + Len(keyword) - 1)) = keyword

mentionsKeyword(text) ==
    \E keyword \in Keywords : \E i \in 1..Len(text) : foldedAt(text, keyword, i)

releaseText(release) == release.Body \o " " \o release.Name

C16_FlagIffKeyword ==
    /\ ( /\ ReturnedBy("checkNpmUpdate")
         /\ Asked(requests, "Repositories.ListReleases")
         /\ upstream.listed.err = ""
         /\ Len(upstream.listed.releases) = 1
         /\ strictlyNewer(cleanTag(upstream.listed.releases[1].TagName), info.CurrentVersion) )
       => (info.SecurityPatch <=> mentionsKeyword(releaseText(upstream.listed.releases[1])))
    /\ ( /\ ReturnedBy("checkUpdate")
         /\ upstream.listed.err = ""
         /\ Len(upstream.listed.releases) = 1
         /\ strictlyNewer(withV(upstream.listed.releases[1].TagName), info.CurrentVersion) )
       => (info.SecurityPatch <=> mentionsKeyword(releaseText(upstream.listed.releases[1])))

\* Reached: a release titled "CVE-2024-1", the keyword in capitals, flags
\* the report of checkUpdate.
C16_CapitalsKeywordFlagged ==
    /\ ReturnedBy("checkUpdate")
    /\ upstream.listed.err = ""
    /\ upstream.listed.releases = <<[TagName |-> "v1.10.0", Name |-> "CVE-2024-1", Body |-> "notes"]>>
    /\ info.CurrentVersion = "v1.9.0"
    /\ info.SecurityPatch

(***************************************************************************)
(* C17.  Version normalization: for a raw version made of range characters *)
(* (^ ~ = < > and spaces), an optional "v" and a valid semantic version,   *)
(* the CurrentVersion of checkNpmUpdate's report (frontend.go, part_001)   *)
(* is "v" followed by that semantic version.                               *)
(* Violated: the cutset of the TrimFunc is "^~=>", so "<" and the space    *)
(* stay in the version.                                                    *)
(***************************************************************************)
RangeCharacters == "^~=<> "

\* The raw version without its leading range characters and its "v".
bareVersion(raw) == TrimPrefix(TrimLeftIn(raw, RangeCharacters), "v")

C17_NormalizedVersion ==
    ( /\ pc = "returned"
      /\ call.fn \in {"checkNpmUpdate", "checkNpmUpdateLegacy"}
      /\ IsValid("v" \o bareVersion(call.currentVer)) )
    => info.CurrentVersion = "v" \o bareVersion(call.currentVer)

\* The input on which C17 fails: the comparator "<" is not trimmed.
C17_LessThanKept ==
    /\ ReturnedBy("checkNpmUpdate")
    /\ call.currentVer = "<1.9.0"
    /\ info.CurrentVersion = "v<1.9.0"
    /\ ~IsValid(info.CurrentVersion)

(***************************************************************************)
(* C18.  Errors stay visible through rendering: a report whose evaluation  *)
(* ended in an error (the upstream fetch failed, or no release was found)  *)
(* carries the error in its Status, and writeOutput renders the report     *)
(* with that status, never with the "Up to date" label.                    *)
(* Violated: writeOutput of main.go and of part_001 recompute the status   *)
(* shown from SecurityPatch and UpdateNeeded alone; both are FALSE in an   *)
(* error report, which falls to the last branch, "Up to date".             *)
(***************************************************************************)
C18_ErrorsStayVisible ==
    /\ ( /\ ReturnedBy("checkUpdate")
         /\ (upstream.listed.err # "" \/ upstream.listed.releases = <<>>) )
       => /\ isError(info.Status)
          /\ rendered[1].statusText = info.Status
    /\ ( /\ ReturnedBy("checkNpmUpdateLegacy")
         /\ upstream.npm.err # "" )
       => /\ isError(info.Status)
          /\ rendered[1].statusDisplay = info.Status
    /\ ( /\ ReturnedBy("checkNpmUpdate")
         /\ upstream.npm.err # "" )
       => /\ isError(info.Status)
          /\ rendered[1].statusDisplay = info.Status

\* The input on which C18 fails: GitHub lists no release; the report says
\* so and is written out as up to date.
C18_NoReleasesShownUpToDate ==
    /\ ReturnedBy("checkUpdate")
    /\ upstream.listed.err = ""
    /\ upstream.listed.releases = <<>>
    /\ info.Status = CrossMark \o " ERROR: No releases found."
    /\ rendered[1].statusText = StatusUpToDate

(***************************************************************************)
(* C19.  Newest-release excerpt: when checkNpmUpdate (frontend.go) needs   *)
(* an update and the listing succeeds with at least one release strictly   *)
(* newer than the current version, ReleaseNotesList holds one entry, the   *)
(* changelog of the release with the greatest version among the listed     *)
(* releases newer than the current one, whatever the order of the list.    *)
(* Violated: the loop stores the first release it meets and leaves at the  *)
(* first release that is not newer; the stored entry depends on the order. *)
(***************************************************************************)
newerAt(releases, i) == strictlyNewer(cleanTag(releases[i].TagName), info.CurrentVersion)

\* releases[i] is newer than the current version and no newer release of
\* the list has a greater version.
greatestNewerAt(releases, i) ==
    /\ newerAt(releases, i)
    /\ \A j \in 1..Len(releases) :
          newerAt(releases, j) =>
             Compare(cleanTag(releases[j].TagName), cleanTag(releases[i].TagName)) <= 0

\* note is the changelog entry made of release.
changelogOf(note, release) ==
    /\ HasPrefix(note, "\n--- Latest Changelog for " \o release.Name
                       \o " (Tag: " \o release.TagName \o ")")
    /\ HasSuffix(note, " ---\n" \o release.Body \o "\n")

C19_NewestReleaseExcerpt ==
    ( /\ ReturnedBy("checkNpmUpdate")
      /\ info.UpdateNeeded
      /\ Asked(requests, "Repositories.ListReleases")
      /\ upstream.listed.err = ""
      /\ \E i \in 1..Len(upstream.listed.releases) : newerAt(upstream.listed.releases, i) )
    => /\ Len(info.ReleaseNotesList) = 1
       /\ \E i \in 1..Len(upstream.listed.releases) :
             /\ greatestNewerAt(upstream.listed.releases, i)
             /\ changelogOf(info.ReleaseNotesList[1], upstream.listed.releases[i])

\* The input on which C19 fails: the list holds the older v1.8.0 before the
\* newer v1.10.0, and the entry stored is the warning that no release
\* details were found.
C19_NewerReleaseSecond ==
    /\ ReturnedBy("checkNpmUpdate")
    /\ info.UpdateNeeded
    /\ info.CurrentVersion = "v1.9.0"
    /\ upstream.listed.err = ""
    /\ upstream.listed.releases = <<RoutineRelease("v1.8.0"), RoutineRelease("v1.10.0")>>
    /\ Len(info.ReleaseNotesList) = 1
    /\ HasPrefix(info.ReleaseNotesList[1], "Warning: Could not fetch specific release details")

(***************************************************************************)
(* C20.  In every report returned by checkNpmUpdate (frontend.go and       *)
(* part_001) and by checkUpdate (main.go), SecurityPatch implies           *)
(* UpdateNeeded, and the status "Up to date" implies that SecurityPatch is *)
(* FALSE and ReleaseNotesList is empty.                                    *)
(***************************************************************************)
C20_FlagsAgreeWithStatus ==
    ( /\ pc = "returned"
      /\ call.fn \in {"checkNpmUpdate", "checkNpmUpdateLegacy", "checkUpdate"} )
    => /\ info.SecurityPatch => info.UpdateNeeded
       /\ info.Status = StatusUpToDate =>
             (~info.SecurityPatch /\ info.ReleaseNotesList = <<>>)

\* Reached: checkUpdate reports "Up to date" although the list holds a
\* security release; the flag is FALSE and no note is kept.
C20_UpToDateWithoutNotes ==
    /\ ReturnedBy("checkUpdate")
    /\ info.Status = StatusUpToDate
    /\ info.CurrentVersion = "v1.10.0"
    /\ \E i \in 1..Len(upstream.listed.releases) :
          mentionsKeyword(releaseText(upstream.listed.releases[i]))
    /\ ~info.SecurityPatch
    /\ ~info.UpdateNeeded
    /\ info.ReleaseNotesList = <<>>

(***************************************************************************)
(* C21.  Every evaluation ends in a classification: whatever the upstream  *)
(* answers (finite release and tag lists, each call failing or not), the   *)
(* report checkNpmUpdate and checkUpdate return, and the report of each    *)
(* iteration of checkUpdateAndCreateReport, has a non-empty Status.        *)
(***************************************************************************)
C21_StatusAlwaysSet ==
    /\ ( /\ pc = "returned"
         /\ call.fn \in {"checkNpmUpdate", "checkNpmUpdateLegacy", "checkUpdate"} )
       => info.Status # ""
    /\ ( /\ pc = "returned"
         /\ call.fn \in {"checkUpdateAndCreateReport", "main"} )
       => \A i \in 1..Len(results) : results[i].Status # ""

\* Reached: checkNpmUpdate went through every upstream call, the release
\* list holding a newer release, and ends in "Update Recommended".
C21_ClassifiedAfterAllCalls ==
    /\ ReturnedBy("checkNpmUpdate")
    /\ Asked(requests, "Repositories.Get")
    /\ Asked(requests, "Repositories.ListReleases")
    /\ Len(upstream.listed.releases) >= 2
    /\ info.Status = StatusRecommended

(***************************************************************************)
(* C22.  Rendering never indexes out of range: in every report of          *)
(* checkNpmUpdate, a first ReleaseNotesList entry that starts neither with *)
(* "Warning:" nor with the cross mark holds at least two "---" markers, so *)
(* the third part extractBodyFromChangelog takes in writeOutput exists and *)
(* writeOutput does not panic, whatever the release name and body are.     *)
(***************************************************************************)
\* The positions of text where "---" stands.
markerPositions(text) == {i \in 1..(Len(text) - 2) : SubSeq(text, i, i + 2) = "---"}

\* Two of the positions are those of markers that do not overlap.
twoApart(positions) == \E i \in positions : \E j \in positions : j >= i + 3

twoMarkers(text) == twoApart(markerPositions(text))

C22_ChangelogNoteHasThreeParts ==
    ( /\ pc = "returned"
      /\ call.fn \in {"checkNpmUpdate", "checkNpmUpdateLegacy"}
      /\ Len(info.ReleaseNotesList) > 0
      /\ ~HasPrefix(info.ReleaseNotesList[1], "Warning:")
      /\ ~HasPrefix(info.ReleaseNotesList[1], CrossMark) )
    => /\ twoMarkers(info.ReleaseNotesList[1])
       /\ rendered # PanicOutput
       /\ Len(rendered) = 1

\* Reached: the changelog of a release whose body is empty and whose title
\* is empty is rendered, the summary being empty.
C22_EmptyBodyRendered ==
    /\ ReturnedBy("checkNpmUpdate")
    /\ Len(upstream.listed.releases) = 1
    /\ upstream.listed.releases[1].Body = ""
    /\ Len(info.ReleaseNotesList) = 1
    /\ HasPrefix(info.ReleaseNotesList[1], "\n--- Latest Changelog for ")
    /\ twoMarkers(info.ReleaseNotesList[1])
    /\ rendered[1].changelogSummary = ""

(***************************************************************************)
(* C23.  A failed latest-version resolution leaves the report otherwise    *)
(* untouched: when the registry fetch of checkNpmUpdate fails, or the      *)
(* release listing of checkUpdate fails or holds no release, the report    *)
(* has LatestVersion "N/A", UpdateNeeded and SecurityPatch FALSE and no    *)
(* note, and the failed request is the only one issued for the dependency. *)
(***************************************************************************)
untouched(report) ==
    /\ report.LatestVersion = "N/A"
    /\ ~report.UpdateNeeded
    /\ ~report.SecurityPatch
    /\ report.ReleaseNotesList = <<>>

C23_FailedResolutionLeavesReportUntouched ==
    /\ ( /\ pc = "returned"
         /\ call.fn \in {"checkNpmUpdate", "checkNpmUpdateLegacy"}
         /\ upstream.npm.err # "" )
       => /\ untouched(info)
          /\ requests = <<"fetchNpmInfo">>
          /\ compared = <<>>
    /\ ( /\ ReturnedBy("checkUpdate")
         /\ (upstream.listed.err # "" \/ upstream.listed.releases = <<>>) )
       => /\ untouched(info)
          /\ requests = <<"Repositories.ListReleases">>
          /\ compared = <<>>

\* Reached: the registry answers 404 for the package; the report carries
\* the error and nothing else.
C23_RegistryFetchFailed ==
    /\ ReturnedBy("checkNpmUpdate")
    /\ upstream.npm.err = "npm API returned status 404 for package widget"
    /\ info.Status = CrossMark \o " NPM Fetch Error: npm API returned status 404 for package widget"
    /\ info.CurrentVersion = "v1.9.0"
    /\ untouched(info)
    /\ requests = <<"fetchNpmInfo">>
====
